---- MODULE Spec2Model ----
\* Verification model of the ErasureCoding crate: the XOR-parity erasure scheme
\* (src/erasure), the storage node and cluster (src/storage), the recovery
\* coordinator and the simulator (src/simulation).
EXTENDS Integers, Sequences, FiniteSets, TLC

\* ---------------------------------------------------------------- bounds
MaxK == 3
MaxM == 2
MaxLen == 3
MaxByte == 2
MaxWrites == 3
MaxNodes == 3
MaxChunkWrites == 1
MaxRestoreWrites == 4
MaxIds == 3
MaxEvents == 2
MaxTime == 2
MaxAttempts == 10

VARIABLES
    scheme,   \* SimpleParityScheme { data_chunks, parity_chunks }
    data,     \* the payload handed to encode
    chunks,   \* the Vec<Option<Vec<u8>>> the caller hands to decode
    node,     \* a storage Node driven on its own
    cluster,  \* Cluster { nodes, next_id, scheme }
    out,      \* the last call and what it returned
    coordinator,  \* RecoveryCoordinator { recovery_schedule, stats }
    history   \* what the calls so far have handed out (ids, events), for the claims

vars == <<scheme, data, chunks, node, cluster, out, coordinator, history>>

\* the value of a variable the running specification does not use
Unused == <<>>

\* ---------------------------------------------------------------- values
Byte == 0..MaxByte

\* Result<T>: Ok(v) or Err(message)
Ok(v) == [ok |-> TRUE, val |-> v, err |-> ""]
Err(e) == [ok |-> FALSE, val |-> <<>>, err |-> e]

\* Option<Vec<u8>>
None == [some |-> FALSE, v |-> <<>>]
Some(c) == [some |-> TRUE, v |-> c]

\* error messages of recover_chunks (the formatted numbers left out)
ErrChunkCount == "Expected chunks, got"
ErrInsufficientChunks == "Cannot recover: need at least data_chunks chunks"
ErrNoParity == "No parity chunks available for recovery"
ErrUnsupportedRecovery == "Multiple chunk recovery not implemented in simple scheme"
\* an index out of bounds aborts the thread
Panic == "panic: index out of bounds"

Min(a, b) == IF a < b THEN a ELSE b

RECURSIVE Xor(_, _)
\* u8 ^ u8, bit by bit
Xor(a, b) ==
    IF a = 0 THEN b
    ELSE IF b = 0 THEN a
    ELSE (((a % 2) + (b % 2)) % 2) + (2 * Xor(a \div 2, b \div 2))

Zeros(n) == [j \in 1..n |-> 0]

\* for (j, &byte) in chunk.iter().enumerate() { acc[j] ^= byte; }
\* acc[j] with j >= acc.len() panics
XorIntoPanics(acc, chunk) == Len(chunk) > Len(acc)
XorInto(acc, chunk) ==
    [j \in 1..Len(acc) |-> IF j <= Len(chunk) THEN Xor(acc[j], chunk[j]) ELSE acc[j]]

\* ---------------------------------------------------------------- SimpleParityScheme
SimpleParityScheme(k, m) == [data_chunks |-> k, parity_chunks |-> m]

total_chunks(s) == s.data_chunks + s.parity_chunks

\* mutants of can_recover: a strict comparison, and an off-by-one threshold
can_recover_Strict(s, available_chunks) == available_chunks > s.data_chunks
can_recover_OffByOne(s, available_chunks) == available_chunks + 1 >= s.data_chunks

can_recover(s, available_chunks) == available_chunks >= s.data_chunks

\* chunk i (0-based) of split_data
SplitChunk(s, d, i) ==
    LET chunk_size == ((Len(d) + s.data_chunks) - 1) \div s.data_chunks
        start == i * chunk_size
        end == Min(start + chunk_size, Len(d))
    IN  IF start < Len(d)
        THEN [j \in 1..chunk_size |-> IF start + j <= end THEN d[start + j] ELSE 0]
        ELSE Zeros(chunk_size)

split_data(s, d) ==
    IF d = <<>>
    THEN [i \in 1..s.data_chunks |-> <<>>]
    ELSE [i \in 1..s.data_chunks |-> SplitChunk(s, d, i - 1)]

\* mutant of should_include: the pattern the comment describes (0, 2, 4, ...)
should_include_AsCommented(p, i) == IF p = 0 THEN TRUE ELSE i % (p + 1) = 0

should_include(p, i) == IF p = 0 THEN TRUE ELSE (i + p) % (p + 1) = 0

RECURSIVE ParityFold(_, _, _, _)
\* the inner loop over data_chunks.iter().enumerate(), from index i on
ParityFold(p, dcs, i, acc) ==
    IF i >= Len(dcs) THEN acc
    ELSE ParityFold(p, dcs, i + 1,
            IF should_include(p, i) THEN XorInto(acc, dcs[i + 1]) ELSE acc)

create_parity_chunks(s, dcs) ==
    IF dcs = <<>>
    THEN <<>>
    ELSE [p \in 1..s.parity_chunks |-> ParityFold(p - 1, dcs, 0, Zeros(Len(dcs[1])))]

encode(s, d) ==
    LET dcs == split_data(s, d)
    IN  Ok(dcs \o create_parity_chunks(s, dcs))

\* number of entries that are Some
AvailableCount(cs) == Cardinality({i \in 1..Len(cs) : cs[i].some})

\* the 0-based data indices that are None
MissingIndices(s, cs) == {i \in 0..(s.data_chunks - 1) : ~cs[i + 1].some}

\* index (1-based in cs) of the first parity entry that is Some, 0 if none
FirstParity(s, cs) ==
    LET avail == {i \in (s.data_chunks + 1)..Len(cs) : cs[i].some}
    IN  IF avail = {} THEN 0 ELSE CHOOSE i \in avail : \A j \in avail : i <= j

RECURSIVE RecoverFold(_, _, _, _, _)
\* the loop XOR-ing every present data chunk other than missing_idx into the
\* clone of the parity chunk, from data index i on; Panic when a chunk is longer
RecoverFold(s, cs, missing_idx, i, acc) ==
    IF i >= s.data_chunks THEN Ok(acc)
    ELSE IF i # missing_idx /\ cs[i + 1].some
         THEN IF XorIntoPanics(acc, cs[i + 1].v)
              THEN Err(Panic)
              ELSE RecoverFold(s, cs, missing_idx, i + 1, XorInto(acc, cs[i + 1].v))
         ELSE RecoverFold(s, cs, missing_idx, i + 1, acc)

recover_chunks(s, cs) ==
    IF Len(cs) # total_chunks(s) THEN Err(ErrChunkCount)
    ELSE IF ~can_recover(s, AvailableCount(cs)) THEN Err(ErrInsufficientChunks)
    ELSE LET missing == MissingIndices(s, cs)
             recovered_data == [i \in 1..s.data_chunks |-> cs[i].v]
         IN  IF missing = {} THEN Ok(recovered_data)
             ELSE IF Cardinality(missing) = 1
             THEN LET missing_idx == CHOOSE i \in missing : TRUE
                      fp == FirstParity(s, cs)
                  IN  IF fp = 0 THEN Err(ErrNoParity)
                      ELSE LET r == RecoverFold(s, cs, missing_idx, 0, cs[fp].v)
                           IN  IF ~r.ok THEN r
                               ELSE Ok([recovered_data EXCEPT ![missing_idx + 1] = r.val])
             ELSE Err(ErrUnsupportedRecovery)

RECURSIVE Concat(_)
Concat(seqs) == IF seqs = <<>> THEN <<>> ELSE Head(seqs) \o Concat(Tail(seqs))

\* mutant of StripZeros: the padding is left in place
StripZeros_Keep(r) == r

\* mutant of StripZeros: one zero byte is removed at most
StripZeros_Once(r) ==
    IF r # <<>> /\ r[Len(r)] = 0 THEN SubSeq(r, 1, Len(r) - 1) ELSE r

RECURSIVE StripZeros(_)
\* while result.ends_with(&[0]) && !result.is_empty() { result.pop(); }
StripZeros(r) ==
    IF r # <<>> /\ r[Len(r)] = 0 THEN StripZeros(SubSeq(r, 1, Len(r) - 1)) ELSE r

decode(s, cs) ==
    LET rc == recover_chunks(s, cs)
    IN  IF ~rc.ok THEN rc ELSE Ok(StripZeros(Concat(rc.val)))

\* ---------------------------------------------------------------- StorageStats
StorageStats_new == [total_chunks |-> 0, total_bytes |-> 0, reads |-> 0, writes |-> 0]

record_write(st, bytes) ==
    [st EXCEPT !.writes = @ + 1, !.total_bytes = @ + bytes, !.total_chunks = @ + 1]

\* saturating_sub
SatSub(a, b) == IF a >= b THEN a - b ELSE 0

record_delete(st, bytes) ==
    [st EXCEPT !.total_bytes = SatSub(@, bytes), !.total_chunks = SatSub(@, 1)]

\* ---------------------------------------------------------------- Node
NodeState == {"Healthy", "Degraded", "Failed"}

ErrNodeStore == "Node is failed and cannot store data"
ErrNodeRetrieve == "Node is failed and cannot retrieve data"
ErrNodeDelete == "Node is failed and cannot delete data"

\* HashMap<String, Vec<u8>>: a function from the keys held
EmptyMap == [x \in {} |-> <<>>]
\* mutant of MapInsert: an entry that exists is kept (entry().or_insert)
MapInsert_KeepOld(mp, key, v) ==
    [x \in (DOMAIN mp) \cup {key} |-> IF x \in DOMAIN mp THEN mp[x] ELSE v]

MapInsert(mp, key, v) == [x \in (DOMAIN mp) \cup {key} |-> IF x = key THEN v ELSE mp[x]]
MapRemove(mp, key) == [x \in (DOMAIN mp) \ {key} |-> mp[x]]

LatencyOf(state) ==
    CASE state = "Healthy" -> 10
      [] state = "Degraded" -> 100
      [] state = "Failed" -> 0

Node_new(id) ==
    [id |-> id, state |-> "Healthy", data |-> EmptyMap,
     stats |-> StorageStats_new, latency_ms |-> 10]

Node_with_state(id, state) ==
    [Node_new(id) EXCEPT !.state = state, !.latency_ms = LatencyOf(state)]

\* mutant of set_state: a Failed node stays Failed
set_state_Sticky(n, state) ==
    IF n.state = "Failed" THEN n
    ELSE [n EXCEPT !.state = state, !.latency_ms = LatencyOf(state)]

\* mutant of set_state: the latency of the previous state is kept
set_state_KeepsLatency(n, state) == [n EXCEPT !.state = state]

set_state(n, state) == [n EXCEPT !.state = state, !.latency_ms = LatencyOf(state)]

is_available(n) == n.state # "Failed"

chunk_count(n) == Cardinality(DOMAIN n.data)

RECURSIVE SumLen(_, _)
SumLen(mp, ks) ==
    IF ks = {} THEN 0
    ELSE LET x == CHOOSE x \in ks : TRUE IN Len(mp[x]) + SumLen(mp, ks \ {x})

bytes_stored(n) == SumLen(n.data, DOMAIN n.data)

fail(n) == set_state(n, "Failed")

\* mutant of recover: the node comes back empty
recover_Empty(n) == [set_state(n, "Healthy") EXCEPT !.data = EmptyMap]

recover(n) == set_state(n, "Healthy")

degrade(n) == IF n.state = "Healthy" THEN set_state(n, "Degraded") ELSE n

get_stored_keys(n) == DOMAIN n.data

clear_data(n) == [n EXCEPT !.data = EmptyMap, !.stats = StorageStats_new]

\* impl Storage for Node: each returns the node afterwards and the result
\* mutant of Node_store: the check for a failed node is missing
Node_store_Unchecked(n, key, d) ==
    [node |-> [n EXCEPT !.data = MapInsert(@, key, d),
                        !.stats = record_write(@, Len(d))],
     res |-> Ok(<<>>)]

Node_store(n, key, d) ==
    IF n.state = "Failed"
    THEN [node |-> n, res |-> Err(ErrNodeStore)]
    ELSE [node |-> [n EXCEPT !.data = MapInsert(@, key, d),
                             !.stats = record_write(@, Len(d))],
          res |-> Ok(<<>>)]

\* mutant of Node_retrieve: a Failed node still answers
Node_retrieve_Unchecked(n, key) ==
    Ok(IF key \in DOMAIN n.data THEN Some(n.data[key]) ELSE None)

Node_retrieve(n, key) ==
    IF n.state = "Failed"
    THEN Err(ErrNodeRetrieve)
    ELSE Ok(IF key \in DOMAIN n.data THEN Some(n.data[key]) ELSE None)

Node_delete(n, key) ==
    IF n.state = "Failed"
    THEN [node |-> n, res |-> Err(ErrNodeDelete)]
    ELSE IF key \in DOMAIN n.data
         THEN [node |-> [n EXCEPT !.data = MapRemove(@, key),
                                  !.stats = record_delete(@, Len(n.data[key]))],
               res |-> Ok(<<>>)]
         ELSE [node |-> n, res |-> Ok(<<>>)]

Node_list_keys(n) == IF n.state = "Failed" THEN {} ELSE DOMAIN n.data

Node_stats(n) == n.stats

\* ---------------------------------------------------------------- Cluster
ErrNoScheme == "No erasure coding scheme configured"
ErrNotEnoughNodes == "Not enough nodes: need, have"
ErrNodeNotFound == "Node not found"
ErrNodeNotInCluster == "Node not found in cluster"

\* Option<Box<dyn ErasureScheme>>
NoScheme == [some |-> FALSE, v |-> SimpleParityScheme(0, 0)]
SomeScheme(s) == [some |-> TRUE, v |-> s]

\* the sequences that list every element of S once
Orderings(S) ==
    {f \in [1..Cardinality(S) -> S] : \A i, j \in 1..Cardinality(S) : f[i] = f[j] => i = j}

\* nodes: HashMap<NodeId, Node>. A HashMap iterates in an order that is not
\* specified; it is the same from one iteration to the next while the map is
\* not modified. order is that order.
Cluster_new ==
    [nodes |-> [x \in {} |-> Node_new(0)], order |-> <<>>, next_id |-> 0, scheme |-> NoScheme]

set_scheme(c, s) == [c EXCEPT !.scheme = SomeScheme(s)]

node_ids(c) == c.order

node_count(c) == Cardinality(DOMAIN c.nodes)

\* mutant of healthy_node_count: every node that is not Failed is counted
healthy_node_count_NotFailed(c) ==
    Cardinality({id \in DOMAIN c.nodes : c.nodes[id].state # "Failed"})

healthy_node_count(c) == Cardinality({id \in DOMAIN c.nodes : c.nodes[id].state = "Healthy"})

failed_node_count(c) == Cardinality({id \in DOMAIN c.nodes : c.nodes[id].state = "Failed"})

\* mutant of available_node_count: Degraded nodes are not counted
available_node_count_HealthyOnly(c) == healthy_node_count(c)

available_node_count(c) == Cardinality({id \in DOMAIN c.nodes : is_available(c.nodes[id])})

\* the clusters add_node can leave: the new id may land anywhere in the
\* iteration order, and a growing table may reorder the rest
add_node_with_state(c, state) ==
    LET id == c.next_id
        nodes == [x \in (DOMAIN c.nodes) \cup {id} |->
                     IF x = id THEN Node_with_state(id, state) ELSE c.nodes[x]]
    IN  {[cluster |-> [c EXCEPT !.nodes = nodes, !.order = o, !.next_id = id + 1],
          res |-> id] : o \in Orderings(DOMAIN nodes)}

add_node(c) == add_node_with_state(c, "Healthy")

\* the order with id taken out (a removal moves no other entry)
RECURSIVE Without(_, _)
Without(o, id) ==
    IF o = <<>> THEN <<>>
    ELSE IF Head(o) = id THEN Without(Tail(o), id)
    ELSE <<Head(o)>> \o Without(Tail(o), id)

\* mutant of remove_node: the removed id is handed out again
remove_node_Recycle(c, id) ==
    IF id \in DOMAIN c.nodes
    THEN [cluster |-> [c EXCEPT !.nodes = [x \in (DOMAIN c.nodes) \ {id} |-> c.nodes[x]],
                                !.order = Without(c.order, id),
                                !.next_id = id],
          res |-> Ok(<<>>)]
    ELSE [cluster |-> c, res |-> Err(ErrNodeNotInCluster)]

remove_node(c, id) ==
    IF id \in DOMAIN c.nodes
    THEN [cluster |-> [c EXCEPT !.nodes = [x \in (DOMAIN c.nodes) \ {id} |-> c.nodes[x]],
                                !.order = Without(c.order, id)],
          res |-> Ok(<<>>)]
    ELSE [cluster |-> c, res |-> Err(ErrNodeNotInCluster)]

\* the clusters Cluster::with_nodes(node_count) can return
RECURSIVE with_nodes(_)
with_nodes(n) ==
    IF n = 0 THEN {Cluster_new}
    ELSE UNION {{r.cluster : r \in add_node(c)} : c \in with_nodes(n - 1)}

\* mutant of fail_node: the failed node loses its chunks
fail_node_ClearsData(c, id) ==
    IF id \in DOMAIN c.nodes
    THEN [cluster |-> [c EXCEPT !.nodes[id] = clear_data(fail(@))], res |-> Ok(<<>>)]
    ELSE [cluster |-> c, res |-> Err(ErrNodeNotFound)]

fail_node(c, id) ==
    IF id \in DOMAIN c.nodes
    THEN [cluster |-> [c EXCEPT !.nodes[id] = fail(@)], res |-> Ok(<<>>)]
    ELSE [cluster |-> c, res |-> Err(ErrNodeNotFound)]

recover_node(c, id) ==
    IF id \in DOMAIN c.nodes
    THEN [cluster |-> [c EXCEPT !.nodes[id] = recover(@)], res |-> Ok(<<>>)]
    ELSE [cluster |-> c, res |-> Err(ErrNodeNotFound)]

degrade_node(c, id) ==
    IF id \in DOMAIN c.nodes
    THEN [cluster |-> [c EXCEPT !.nodes[id] = degrade(@)], res |-> Ok(<<>>)]
    ELSE [cluster |-> c, res |-> Err(ErrNodeNotFound)]

\* format!("{}_{}", key, i)
ChunkKey(key, i) == key \o "_" \o ToString(i)

RECURSIVE StoreLoop_NoAvailabilityCheck(_, _, _, _, _)
\* mutant of StoreLoop: node.store is called on a Failed node too
StoreLoop_NoAvailabilityCheck(ns, ids, key, cs, i) ==
    IF i >= Len(cs) THEN [nodes |-> ns, res |-> Ok(<<>>)]
    ELSE IF i < Len(ids) /\ ids[i + 1] \in DOMAIN ns
         THEN LET r == Node_store(ns[ids[i + 1]], ChunkKey(key, i), cs[i + 1])
              IN  IF ~r.res.ok THEN [nodes |-> ns, res |-> r.res]
                  ELSE StoreLoop_NoAvailabilityCheck(
                           [ns EXCEPT ![ids[i + 1]] = r.node], ids, key, cs, i + 1)
         ELSE StoreLoop_NoAvailabilityCheck(ns, ids, key, cs, i + 1)

RECURSIVE StoreLoop(_, _, _, _, _)
\* the loop over chunks.into_iter().enumerate(), from index i on, over the
\* node map ns: the node map afterwards and the result (a failed store returns)
StoreLoop(ns, ids, key, cs, i) ==
    IF i >= Len(cs) THEN [nodes |-> ns, res |-> Ok(<<>>)]
    ELSE IF i < Len(ids) /\ ids[i + 1] \in DOMAIN ns /\ is_available(ns[ids[i + 1]])
         THEN LET r == Node_store(ns[ids[i + 1]], ChunkKey(key, i), cs[i + 1])
              IN  IF ~r.res.ok THEN [nodes |-> ns, res |-> r.res]
                  ELSE StoreLoop([ns EXCEPT ![ids[i + 1]] = r.node], ids, key, cs, i + 1)
         ELSE StoreLoop(ns, ids, key, cs, i + 1)

\* mutant of store_data: the chunks are distributed without comparing their
\* number with node_count
store_data_NoCheck(c, key, d) ==
    IF ~c.scheme.some THEN [cluster |-> c, res |-> Err(ErrNoScheme)]
    ELSE LET r == StoreLoop(c.nodes, node_ids(c), key, encode(c.scheme.v, d).val, 0)
         IN  [cluster |-> [c EXCEPT !.nodes = r.nodes], res |-> r.res]

store_data(c, key, d) ==
    IF ~c.scheme.some THEN [cluster |-> c, res |-> Err(ErrNoScheme)]
    ELSE LET cs == encode(c.scheme.v, d).val
         IN  IF Len(cs) > node_count(c)
             THEN [cluster |-> c, res |-> Err(ErrNotEnoughNodes)]
             ELSE LET r == StoreLoop(c.nodes, node_ids(c), key, cs, 0)
                  IN  [cluster |-> [c EXCEPT !.nodes = r.nodes], res |-> r.res]

RECURSIVE Ascending(_)
Ascending(S) ==
    IF S = {} THEN <<>>
    ELSE LET x == CHOOSE x \in S : \A y \in S : x <= y IN <<x>> \o Ascending(S \ {x})

\* mutant of CollectChunks: position i is read from the node with the i-th
\* smallest id, whatever order the map iterates in
CollectChunks_ByAscendingId(c, key) ==
    LET ids == Ascending(DOMAIN c.nodes)
    IN  [i \in 1..total_chunks(c.scheme.v) |->
            IF i <= Len(ids)
            THEN LET r == Node_retrieve(c.nodes[ids[i]], ChunkKey(key, i - 1))
                 IN  IF r.ok /\ r.val.some THEN r.val ELSE None
            ELSE None]

\* the chunks retrieve_data collects: position i from the i-th node
CollectChunks(c, key) ==
    LET ids == node_ids(c)
    IN  [i \in 1..total_chunks(c.scheme.v) |->
            IF i <= Len(ids) /\ ids[i] \in DOMAIN c.nodes
            THEN LET r == Node_retrieve(c.nodes[ids[i]], ChunkKey(key, i - 1))
                 IN  IF r.ok /\ r.val.some THEN r.val ELSE None
            ELSE None]

retrieve_data(c, key) ==
    IF ~c.scheme.some THEN Err(ErrNoScheme)
    ELSE decode(c.scheme.v, CollectChunks(c, key))

\* mutant of can_recover_data: only Healthy nodes are counted
can_recover_data_CountsHealthy(c, key) ==
    IF c.scheme.some THEN can_recover(c.scheme.v, healthy_node_count(c)) ELSE FALSE

can_recover_data(c, key) ==
    IF c.scheme.some THEN can_recover(c.scheme.v, available_node_count(c)) ELSE FALSE

\* ClusterHealth; degraded_nodes is total - healthy - failed, computed in usize
health_status(c) ==
    [total_nodes |-> node_count(c),
     healthy_nodes |-> healthy_node_count(c),
     degraded_nodes |-> node_count(c) - healthy_node_count(c) - failed_node_count(c),
     failed_nodes |-> failed_node_count(c),
     can_recover |-> can_recover_data(c, "")]

\* for node in self.nodes.values(), from the i-th node of the iteration on
RECURSIVE StatisticsLoop(_, _, _)
StatisticsLoop(c, i, acc) ==
    IF i > Len(c.order) THEN acc
    ELSE LET n == c.nodes[c.order[i]]
         IN  StatisticsLoop(c, i + 1,
                 [total_chunks |-> acc.total_chunks + Node_stats(n).total_chunks,
                  total_bytes |-> acc.total_bytes + Node_stats(n).total_bytes,
                  node_stats |-> Append(acc.node_stats,
                      [node_id |-> n.id, state |-> n.state, chunks |-> chunk_count(n),
                       bytes |-> bytes_stored(n), latency_ms |-> n.latency_ms])])

\* ClusterStatistics
get_statistics(c) ==
    StatisticsLoop(c, 1, [total_chunks |-> 0, total_bytes |-> 0, node_stats |-> <<>>])

failure_tolerance(h) == IF h.can_recover THEN SatSub(h.healthy_nodes, 1) ELSE 0

is_critical(h) == ~h.can_recover \/ failure_tolerance(h) = 0

\* ---------------------------------------------------------------- RecoveryCoordinator
\* RecoveryType
NodeRestart(id) == [kind |-> "NodeRestart", node_id |-> id]
DataRebuild(id, keys) == [kind |-> "DataRebuild", node_id |-> id, keys |-> keys]
HotSpareActivation(spare_id, failed_id) ==
    [kind |-> "HotSpareActivation", spare_id |-> spare_id, failed_id |-> failed_id]
NetworkRepair(ids) == [kind |-> "NetworkRepair", node_ids |-> ids]

\* RecoveryStats (total_recovery_time is wall-clock time and strategy_usage is
\* never written: neither is read by the coordinator)
RecoveryStats_default == [successful_recoveries |-> 0, failed_recoveries |-> 0]

RecoveryCoordinator_new ==
    [recovery_schedule |-> <<>>, stats |-> RecoveryStats_default]

\* RecoveryEvent; seq is not a field of the struct: it is the ordinal of the
\* schedule_recovery call that brought the event, so that two equal events
\* can be told apart
RecoveryEvent(node_id, timestamp, recovery_type, strategy, seq) ==
    [node_id |-> node_id, timestamp |-> timestamp, recovery_type |-> recovery_type,
     strategy |-> strategy, seq |-> seq]

get_primary_node_id(e) ==
    CASE e.recovery_type.kind = "NodeRestart" -> e.recovery_type.node_id
      [] e.recovery_type.kind = "DataRebuild" -> e.recovery_type.node_id
      [] e.recovery_type.kind = "HotSpareActivation" -> e.recovery_type.spare_id
      [] e.recovery_type.kind = "NetworkRepair" ->
            IF e.recovery_type.node_ids = <<>> THEN 0 ELSE Head(e.recovery_type.node_ids)

\* one step of the stable sort: e goes behind the last element that is not
\* greater than it
InsertByTimestamp(sorted, e) ==
    LET n == Cardinality({i \in 1..Len(sorted) : sorted[i].timestamp <= e.timestamp})
    IN  SubSeq(sorted, 1, n) \o <<e>> \o SubSeq(sorted, n + 1, Len(sorted))

RECURSIVE SortByTimestamp(_)
\* sort_by_key(|e| e.timestamp), a stable sort
SortByTimestamp(es) ==
    IF es = <<>> THEN <<>>
    ELSE InsertByTimestamp(SortByTimestamp(SubSeq(es, 1, Len(es) - 1)), es[Len(es)])

\* mutant of schedule_recovery: the schedule is not sorted
schedule_recovery_Unsorted(co, event) ==
    [co EXCEPT !.recovery_schedule = Append(@, event)]

schedule_recovery(co, event) ==
    [co EXCEPT !.recovery_schedule = SortByTimestamp(Append(@, event))]

\* mutant of restart_node: any node that exists is recovered
restart_node_AnyState(c, node_id) ==
    IF node_id \in DOMAIN c.nodes
    THEN [cluster |-> recover_node(c, node_id).cluster, res |-> Ok(TRUE)]
    ELSE [cluster |-> c, res |-> Ok(FALSE)]

restart_node(c, node_id) ==
    IF node_id \in DOMAIN c.nodes /\ c.nodes[node_id].state = "Failed"
    THEN LET r == recover_node(c, node_id)
         IN  IF r.res.ok THEN [cluster |-> r.cluster, res |-> Ok(TRUE)]
             ELSE [cluster |-> r.cluster, res |-> r.res]
    ELSE [cluster |-> c, res |-> Ok(FALSE)]

RECURSIVE RebuildLoop(_, _, _, _)

\* Ok(data) => { if cluster.store_data(key, &data).is_ok() { += 1 } }
RebuildStored(keys, i, successful_rebuilds, st) ==
    RebuildLoop(st.cluster, keys, i + 1,
                IF st.res.ok THEN successful_rebuilds + 1 ELSE successful_rebuilds)

\* match cluster.retrieve_data(key): got is what it returned
RebuildKey(c, keys, i, successful_rebuilds, got) ==
    IF got.ok
    THEN RebuildStored(keys, i, successful_rebuilds, store_data(c, keys[i], got.val))
    ELSE IF got.err = Panic THEN [cluster |-> c, res |-> got]
    ELSE RebuildLoop(c, keys, i + 1, successful_rebuilds)

\* the loop over keys from index i on and the comparison that follows it: the
\* cluster afterwards and whether every key was rebuilt, or the abort of
\* retrieve_data
RebuildLoop(c, keys, i, successful_rebuilds) ==
    IF i > Len(keys)
    THEN [cluster |-> c, res |-> Ok(successful_rebuilds = Len(keys))]
    ELSE RebuildKey(c, keys, i, successful_rebuilds, retrieve_data(c, keys[i]))

rebuild_data(c, node_id, keys) ==
    RebuildLoop(IF node_id \in DOMAIN c.nodes /\ ~is_available(c.nodes[node_id])
                THEN recover_node(c, node_id).cluster ELSE c,
                keys, 1, 0)

activate_hot_spare(c, spare_id, failed_id) ==
    [cluster |-> c,
     res |-> Ok(/\ spare_id \in DOMAIN c.nodes /\ failed_id \in DOMAIN c.nodes
                /\ c.nodes[spare_id].state = "Healthy")]

RECURSIVE RepairLoop(_, _, _, _)

\* mutant of RepairNode: every listed id counts as repaired
RepairNode_CountsAll(ids, i, repaired_count, r) ==
    RepairLoop(r.cluster, ids, i + 1, repaired_count + 1)

\* if cluster.recover_node(node_id).is_ok() { repaired_count += 1 }
RepairNode(ids, i, repaired_count, r) ==
    RepairLoop(r.cluster, ids, i + 1,
               IF r.res.ok THEN repaired_count + 1 ELSE repaired_count)

\* the loop over node_ids from index i on and the comparison that follows it
RepairLoop(c, ids, i, repaired_count) ==
    IF i > Len(ids) THEN [cluster |-> c, res |-> Ok(repaired_count = Len(ids))]
    ELSE RepairNode(ids, i, repaired_count, recover_node(c, ids[i]))

repair_network(c, ids) == RepairLoop(c, ids, 1, 0)

\* RecoveryResult (duration is wall-clock time)
RecoveryResult(e, success) ==
    [node_id |-> get_primary_node_id(e), recovery_type |-> e.recovery_type,
     success |-> success, strategy_used |-> e.strategy]

\* let success = match &event.recovery_type { ... }
RunRecovery(c, t) ==
    CASE t.kind = "NodeRestart" -> restart_node(c, t.node_id)
      [] t.kind = "DataRebuild" -> rebuild_data(c, t.node_id, t.keys)
      [] t.kind = "HotSpareActivation" -> activate_hot_spare(c, t.spare_id, t.failed_id)
      [] t.kind = "NetworkRepair" -> repair_network(c, t.node_ids)

\* the rest of execute_recovery: r is the cluster and the success flag the
\* match produced
RecordRecovery(co, e, r) ==
    IF ~r.res.ok THEN [coordinator |-> co, cluster |-> r.cluster, res |-> r.res]
    ELSE [coordinator |->
              IF r.res.val
              THEN [co EXCEPT !.stats.successful_recoveries = @ + 1]
              ELSE [co EXCEPT !.stats.failed_recoveries = @ + 1],
          cluster |-> r.cluster,
          res |-> Ok(RecoveryResult(e, r.res.val))]

execute_recovery(co, c, e) == RecordRecovery(co, e, RunRecovery(c, e.recovery_type))

RECURSIVE ProcessLoop(_, _, _, _, _)

\* let result = self.execute_recovery(cluster, &event).await?; results.push(result)
ProcessEvent(es, i, results, r) ==
    IF ~r.res.ok
    THEN [coordinator |-> r.coordinator, cluster |-> r.cluster, res |-> r.res,
          executed |-> SubSeq(es, 1, i - 1)]
    ELSE ProcessLoop(r.coordinator, r.cluster, es, i + 1, Append(results, r.res.val))

\* for event in events_to_process, from index i on
ProcessLoop(co, c, es, i, results) ==
    IF i > Len(es)
    THEN [coordinator |-> co, cluster |-> c, res |-> Ok(results), executed |-> es]
    ELSE ProcessEvent(es, i, results, execute_recovery(co, c, es[i]))

\* mutant of process_recovery_events: the due events stay in the schedule
process_recovery_events_KeepsDue(co, c, current_time) ==
    LET Due(e) == e.timestamp <= current_time
    IN  ProcessLoop(co, c, SelectSeq(co.recovery_schedule, Due), 1, <<>>)

\* executed: the events execute_recovery has returned for, in order
process_recovery_events(co, c, current_time) ==
    LET Due(e) == e.timestamp <= current_time
        Later(e) == ~(e.timestamp <= current_time)
        events_to_process == SelectSeq(co.recovery_schedule, Due)
        remaining_events == SelectSeq(co.recovery_schedule, Later)
    IN  ProcessLoop([co EXCEPT !.recovery_schedule = remaining_events], c,
                    events_to_process, 1, <<>>)

\* the events one branch of plan_recovery_strategy pushes: entry i (from 0)
\* of failed_nodes is restarted at base_time plus i times spacing; times are
\* in milliseconds
PlanEvents(failed_nodes, spacing, strategy) ==
    [i \in 1..Len(failed_nodes) |->
        RecoveryEvent(failed_nodes[i], 1000 + (i - 1) * spacing,
                      NodeRestart(failed_nodes[i]), strategy, 0)]

\* mutant of plan_recovery_strategy: the health of the cluster is not looked at
plan_recovery_strategy_AlwaysGradual(co, c, failed_nodes) ==
    PlanEvents(failed_nodes, 2000, "GradualRecovery")

\* &self and &Cluster: the events are all it produces
plan_recovery_strategy(co, c, failed_nodes) ==
    IF is_critical(health_status(c))
    THEN PlanEvents(failed_nodes, 100, "ImmediateRestart")
    ELSE PlanEvents(failed_nodes, 2000, "GradualRecovery")

\* ---------------------------------------------------------------- RecoveryStats
\* RecoveryStats with its total_recovery_time, a Duration, in microseconds
\* (strategy_usage is never written). The coordinator above leaves the time
\* out of its stats: it is wall-clock time.
RecoveryStats_timed ==
    [successful_recoveries |-> 0, failed_recoveries |-> 0, total_recovery_time |-> 0]

\* if success { successful_recoveries += 1; total_recovery_time += duration }
RecordSuccess(st, duration) ==
    [st EXCEPT !.successful_recoveries = @ + 1, !.total_recovery_time = @ + duration]

\* else { failed_recoveries += 1 }
RecordFailure(st) == [st EXCEPT !.failed_recoveries = @ + 1]

\* an f64 that is the quotient of two integers, kept exact
Ratio(num, den) == [num |-> num, den |-> den]

success_rate(st) ==
    LET total == st.successful_recoveries + st.failed_recoveries
    IN  IF total = 0 THEN Ratio(100, 1)
        ELSE Ratio(st.successful_recoveries * 100, total)

\* Duration::as_millis
as_millis(micros) == micros \div 1000

\* Duration::from_millis
from_millis(ms) == ms * 1000

\* mutant of average_recovery_time: the time is divided by all attempts
average_recovery_time_PerAttempt(st) ==
    IF st.successful_recoveries = 0 THEN 0
    ELSE from_millis(as_millis(st.total_recovery_time)
                         \div (st.successful_recoveries + st.failed_recoveries))

average_recovery_time(st) ==
    IF st.successful_recoveries = 0 THEN 0
    ELSE from_millis(as_millis(st.total_recovery_time) \div st.successful_recoveries)

total_attempts(st) == st.successful_recoveries + st.failed_recoveries

\* ---------------------------------------------------------------- Simulator
\* The simulator owns its cluster; rng draws are choices, so each scenario is
\* the set of outcomes it can have. sleep_scaled only waits.
ErrNoHealthyNodes == "No healthy nodes available to fail"
ErrPartitionTooLarge == "Not enough available nodes for partition"

\* node_ids().into_iter().filter(|&id| get_node(id).map(|n| n.is_available())...)
AvailableIds(c) == {id \in DOMAIN c.nodes : is_available(c.nodes[id])}

\* ... .map(|n| !n.is_available())
UnavailableIds(c) == {id \in DOMAIN c.nodes : ~is_available(c.nodes[id])}

\* mutant of simulate_single_failure: only Healthy nodes are candidates
simulate_single_failure_HealthyOnly(c) ==
    IF healthy_node_count(c) = 0
    THEN {[cluster |-> c, res |-> Err(ErrNoHealthyNodes)]}
    ELSE {fail_node(c, id) : id \in {x \in DOMAIN c.nodes : c.nodes[x].state = "Healthy"}}

simulate_single_failure(c) ==
    IF AvailableIds(c) = {}
    THEN {[cluster |-> c, res |-> Err(ErrNoHealthyNodes)]}
    ELSE {fail_node(c, node_to_fail) : node_to_fail \in AvailableIds(c)}

\* mutant of CascadeLoop: no check for remaining available nodes
RECURSIVE CascadeLoop_NoBreak(_, _, _, _)
CascadeLoop_NoBreak(c, i, count, steps) ==
    IF i >= count
    THEN {[cluster |-> c, res |-> Ok(<<>>), steps |-> steps]}
    ELSE UNION {IF r.res.ok
                THEN CascadeLoop_NoBreak(r.cluster, i + 1, count, Append(steps, r.cluster))
                ELSE {[cluster |-> r.cluster, res |-> r.res, steps |-> steps]}
                    : r \in simulate_single_failure(c)}

\* for i in 0..count, from i on; steps is not in the code: it is the cluster
\* after each single failure so far
RECURSIVE CascadeLoop(_, _, _, _)
CascadeLoop(c, i, count, steps) ==
    IF i >= count \/ available_node_count(c) = 0
    THEN {[cluster |-> c, res |-> Ok(<<>>), steps |-> steps]}
    ELSE UNION {IF r.res.ok
                THEN CascadeLoop(r.cluster, i + 1, count, Append(steps, r.cluster))
                ELSE {[cluster |-> r.cluster, res |-> r.res, steps |-> steps]}
                    : r \in simulate_single_failure(c)}

simulate_cascading_failures(c, count) == CascadeLoop(c, 0, count, <<>>)

\* fail_node for every id of a set of nodes of the cluster
FailAll(c, ids) ==
    [c EXCEPT !.nodes = [id \in DOMAIN @ |-> IF id \in ids THEN fail(@[id]) ELSE @[id]]]

\* probability: gen::<f64>() is in [0, 1), so no draw is below 0 and every
\* draw is below 1; in between every node is failed or spared
simulate_random_failures(c, percent) ==
    LET hit == IF percent <= 0 THEN {{}}
               ELSE IF percent >= 100 THEN {DOMAIN c.nodes}
               ELSE SUBSET (DOMAIN c.nodes)
    IN  {[cluster |-> FailAll(c, ids \cap AvailableIds(c)), res |-> Ok(<<>>)] : ids \in hit}

\* mutant of simulate_network_partition: a partition larger than the
\* available nodes fails all of them
simulate_network_partition_Truncating(c, partition_size) ==
    IF Cardinality(AvailableIds(c)) < partition_size
    THEN {[cluster |-> FailAll(c, AvailableIds(c)), res |-> Ok(<<>>)]}
    ELSE {[cluster |-> FailAll(c, ids), res |-> Ok(<<>>)] :
              ids \in {x \in SUBSET AvailableIds(c) : Cardinality(x) = partition_size}}

\* shuffle, then take(partition_size): any partition_size of the available nodes
simulate_network_partition(c, partition_size) ==
    IF Cardinality(AvailableIds(c)) < partition_size
    THEN {[cluster |-> c, res |-> Err(ErrPartitionTooLarge)]}
    ELSE {[cluster |-> FailAll(c, ids), res |-> Ok(<<>>)] :
              ids \in {x \in SUBSET AvailableIds(c) : Cardinality(x) = partition_size}}

recover_random_node(c) ==
    IF UnavailableIds(c) = {}
    THEN {[cluster |-> c, res |-> Ok(FALSE)]}
    ELSE {[cluster |-> recover_node(c, node_to_recover).cluster, res |-> Ok(TRUE)] :
              node_to_recover \in UnavailableIds(c)}

\* mutant of recover_all_nodes: every node is recovered
recover_all_nodes_ResetsAll(c) ==
    [cluster |-> [c EXCEPT !.nodes = [id \in DOMAIN @ |-> recover(@[id])]],
     res |-> Ok(Cardinality(UnavailableIds(c)))]

recover_all_nodes(c) ==
    [cluster |-> [c EXCEPT !.nodes = [id \in DOMAIN @ |->
                      IF id \in UnavailableIds(c) THEN recover(@[id]) ELSE @[id]]],
     res |-> Ok(Cardinality(UnavailableIds(c)))]

\* ---------------------------------------------------------------- FailureScenarios
\* Durations are in microseconds.
\* FailureEvent
FailureEvent(node_id, timestamp, failure_type) ==
    [node_id |-> node_id, timestamp |-> timestamp, failure_type |-> failure_type]

\* enumerate() counts from 0: entry i (from 1) of rack_nodes has index i - 1
rack_failure(rack_nodes) ==
    [i \in 1..Len(rack_nodes) |->
        FailureEvent(rack_nodes[i], 5000000 + from_millis((i - 1) * 50), "PowerOutage")]

\* Duration::from_millis(i as u64 * interval.as_millis() as u64)
rolling_failure(ids, interval) ==
    [i \in 1..Len(ids) |->
        FailureEvent(ids[i], from_millis((i - 1) * as_millis(interval)),
                     "HardwareFailure")]

\* ---------------------------------------------------------------- codec driver
\* A caller of the scheme in the shape of the unit tests: encode a payload,
\* turn the chunks into Options, lose some of them, decode.
Payloads == UNION {[1..n -> Byte] : n \in 0..MaxLen}

NoCall == [op |-> "none", res |-> Ok(<<>>)]

CodecInit ==
    /\ node = Unused /\ cluster = Unused
    /\ coordinator = Unused /\ history = Unused
    /\ scheme \in {SimpleParityScheme(k, m) : k \in 1..MaxK, m \in 0..MaxM}
    /\ data \in Payloads
    /\ chunks = <<>>
    /\ out = NoCall

Encode ==
    /\ out.op = "none"
    /\ chunks = <<>>
    /\ LET r == encode(scheme, data)
       IN  /\ out' = [op |-> "encode", res |-> r]
           /\ chunks' = [i \in 1..Len(r.val) |-> Some(r.val[i])]
    /\ UNCHANGED <<scheme, data, node, cluster, coordinator, history>>

\* failed_chunks[i] = None
LoseChunk ==
    /\ out.op = "encode"
    /\ \E i \in 1..Len(chunks) :
        /\ chunks[i].some
        /\ chunks' = [chunks EXCEPT ![i] = None]
    /\ UNCHANGED <<scheme, data, node, cluster, out, coordinator, history>>

Decode ==
    /\ out.op = "encode"
    /\ out' = [op |-> "decode", res |-> decode(scheme, chunks)]
    /\ UNCHANGED <<scheme, data, chunks, node, cluster, coordinator, history>>

CodecNext == Encode \/ LoseChunk \/ Decode

SpecCodec == CodecInit /\ [][CodecNext]_vars

\* ---------------------------------------------------------------- node driver
\* A caller holding one Node, as the unit tests of node.rs do.
NodeIds == {0, 1}
NodeKeys == {"a_0", "b_0"}
NodeChunks == {<<>>, <<1>>, <<2, 1>>}

Call(op, res) == [op |-> op, res |-> res]

NodeInit ==
    /\ scheme = Unused /\ data = Unused /\ chunks = Unused /\ cluster = Unused
    /\ coordinator = Unused /\ history = Unused
    /\ node \in {Node_new(id) : id \in NodeIds}
             \cup {Node_with_state(id, st) : id \in NodeIds, st \in NodeState}
    /\ out = Call("new", Ok(<<>>))

NodeStore ==
    /\ node.stats.writes < MaxWrites
    /\ \E key \in NodeKeys, d \in NodeChunks :
        LET r == Node_store(node, key, d)
        IN  node' = r.node /\ out' = Call("store", r.res)
    /\ UNCHANGED <<scheme, data, chunks, cluster, coordinator, history>>

NodeRetrieve ==
    /\ \E key \in NodeKeys : out' = Call("retrieve", Node_retrieve(node, key))
    /\ UNCHANGED <<scheme, data, chunks, node, cluster, coordinator, history>>

NodeDelete ==
    /\ \E key \in NodeKeys :
        LET r == Node_delete(node, key)
        IN  node' = r.node /\ out' = Call("delete", r.res)
    /\ UNCHANGED <<scheme, data, chunks, cluster, coordinator, history>>

NodeListKeys ==
    /\ out' = Call("list_keys", Ok(Node_list_keys(node)))
    /\ UNCHANGED <<scheme, data, chunks, node, cluster, coordinator, history>>

NodeFail ==
    /\ node' = fail(node) /\ out' = Call("fail", Ok(<<>>))
    /\ UNCHANGED <<scheme, data, chunks, cluster, coordinator, history>>

NodeRecover ==
    /\ node' = recover(node) /\ out' = Call("recover", Ok(<<>>))
    /\ UNCHANGED <<scheme, data, chunks, cluster, coordinator, history>>

NodeDegrade ==
    /\ node' = degrade(node) /\ out' = Call("degrade", Ok(<<>>))
    /\ UNCHANGED <<scheme, data, chunks, cluster, coordinator, history>>

NodeSetState ==
    /\ \E st \in NodeState : node' = set_state(node, st)
    /\ out' = Call("set_state", Ok(<<>>))
    /\ UNCHANGED <<scheme, data, chunks, cluster, coordinator, history>>

NodeClearData ==
    /\ node' = clear_data(node) /\ out' = Call("clear_data", Ok(<<>>))
    /\ UNCHANGED <<scheme, data, chunks, cluster, coordinator, history>>

NodeNext ==
    \/ NodeStore \/ NodeRetrieve \/ NodeDelete \/ NodeListKeys
    \/ NodeFail \/ NodeRecover \/ NodeDegrade \/ NodeSetState \/ NodeClearData

SpecNode == NodeInit /\ [][NodeNext]_vars

\* ---------------------------------------------------------------- cluster driver
\* A caller in the shape of main.rs and the unit tests of cluster.rs:
\* Cluster::with_nodes(n), possibly set_scheme, then any calls that take
\* &mut self. The &self calls (retrieve_data, can_recover_data) are the
\* operators above, evaluated on the cluster of the state. out is the last
\* store_data call and what it returned.
Keys == {"a", "b"}
StoreKeys == {"a"}
TestData == {<<1, 0, 2>>}
Schemes == {SimpleParityScheme(k, m) : k \in 1..MaxK, m \in 0..MaxM}

\* the iteration orders the driver starts from: ascending and descending ids
SampleOrder(o) ==
    \/ \A i \in 1..Len(o) : o[i] = i - 1
    \/ \A i \in 1..Len(o) : o[i] = Len(o) - i

ClusterInit ==
    /\ scheme = Unused /\ data = Unused /\ chunks = Unused /\ node = Unused
    /\ coordinator = Unused /\ history = Unused
    /\ \E n \in 0..MaxNodes : \E c \in {x \in with_nodes(n) : SampleOrder(x.order)} :
          cluster \in {c} \cup {set_scheme(c, s) : s \in {x \in Schemes : total_chunks(x) <= n + 1}}
    /\ out = Call("new", Ok(<<>>))

FailNode ==
    /\ \E id \in 0..MaxNodes :
        LET r == fail_node(cluster, id)
        IN  cluster' = r.cluster
    /\ UNCHANGED <<scheme, data, chunks, node, out, coordinator, history>>

RecoverNode ==
    /\ \E id \in 0..MaxNodes :
        LET r == recover_node(cluster, id)
        IN  cluster' = r.cluster
    /\ UNCHANGED <<scheme, data, chunks, node, out, coordinator, history>>

DegradeNode ==
    /\ \E id \in 0..MaxNodes :
        LET r == degrade_node(cluster, id)
        IN  cluster' = r.cluster
    /\ UNCHANGED <<scheme, data, chunks, node, out, coordinator, history>>

RECURSIVE SumWrites(_, _)
\* the writes counters of the nodes ids, added up
SumWrites(c, ids) ==
    IF ids = {} THEN 0
    ELSE LET id == CHOOSE x \in ids : TRUE
         IN  c.nodes[id].stats.writes + SumWrites(c, ids \ {id})

StoreData ==
    /\ SumWrites(cluster, DOMAIN cluster.nodes) < MaxChunkWrites
    /\ \E key \in StoreKeys, d \in TestData :
        LET r == store_data(cluster, key, d)
        IN  cluster' = r.cluster /\ out' = Call("store_data", r.res)
    /\ UNCHANGED <<scheme, data, chunks, node, coordinator, history>>

ClusterNext ==
    \/ FailNode \/ RecoverNode \/ DegradeNode \/ StoreData

SpecCluster == ClusterInit /\ [][ClusterNext]_vars

\* ---------------------------------------------------------------- re-store driver
\* A caller that stores the same key again and again, with payloads of
\* different lengths, between failures and recoveries of the nodes (the shape
\* of rebuild_data and of the demos): a cluster of exactly k+m nodes.
\* history is the payload of the last store_data that returned Ok, if any.
RestoreSchemes == {SimpleParityScheme(1, 1), SimpleParityScheme(2, 1)}
RestoreData == {<<1>>, <<1, 0, 2>>}

RestoreInit ==
    /\ scheme = Unused /\ data = Unused /\ chunks = Unused /\ node = Unused
    /\ coordinator = Unused
    /\ history = None
    /\ \E s \in RestoreSchemes :
        \E c \in {x \in with_nodes(total_chunks(s)) : SampleOrder(x.order)} :
            cluster = set_scheme(c, s)
    /\ out = Call("new", Ok(<<>>))

StoreAgain ==
    /\ SumWrites(cluster, DOMAIN cluster.nodes) < MaxRestoreWrites
    /\ \E key \in StoreKeys, d \in RestoreData :
        \E r \in {store_data(cluster, key, d)} :
            /\ cluster' = r.cluster /\ out' = Call("store_data", r.res)
            /\ history' = IF r.res.ok THEN Some(d) ELSE history
    /\ UNCHANGED <<scheme, data, chunks, node, coordinator>>

RestoreNext ==
    \/ FailNode \/ RecoverNode \/ StoreAgain

SpecRestore == RestoreInit /\ [][RestoreNext]_vars

\* ---------------------------------------------------------------- membership driver
\* A caller that builds a cluster node by node and removes nodes, as
\* test_node_management does. history is the set of ids the add calls have
\* returned so far.
MembershipInit ==
    /\ scheme = Unused /\ data = Unused /\ chunks = Unused /\ node = Unused
    /\ coordinator = Unused
    /\ cluster = Cluster_new
    /\ history = {}
    /\ out = Call("new", Ok(<<>>))

AddNode ==
    /\ cluster.next_id < MaxIds
    /\ \E r \in add_node(cluster) :
        /\ cluster' = r.cluster
        /\ out' = Call("add_node", Ok(r.res))
        /\ history' = history \cup {r.res}
    /\ UNCHANGED <<scheme, data, chunks, node, coordinator>>

AddNodeWithState ==
    /\ cluster.next_id < MaxIds
    /\ \E st \in NodeState : \E r \in add_node_with_state(cluster, st) :
        /\ cluster' = r.cluster
        /\ out' = Call("add_node_with_state", Ok(r.res))
        /\ history' = history \cup {r.res}
    /\ UNCHANGED <<scheme, data, chunks, node, coordinator>>

RemoveNode ==
    /\ \E id \in 0..MaxIds :
        LET r == remove_node(cluster, id)
        IN  cluster' = r.cluster /\ out' = Call("remove_node", r.res)
    /\ UNCHANGED <<scheme, data, chunks, node, coordinator, history>>

MembershipNext == AddNode \/ AddNodeWithState \/ RemoveNode

SpecMembership == MembershipInit /\ [][MembershipNext]_vars

\* ---------------------------------------------------------------- recovery driver
\* A caller in the shape of test_recovery_coordinator: a coordinator and a
\* cluster of one node (id 0); the node fails and degrades, restart and
\* rebuild events for it are scheduled and processed at times the caller
\* picks. history is the number of events
\* scheduled and the events executed so far, in order.
RecoveryTypes == {NodeRestart(0), DataRebuild(0, <<"a">>)}

RecoveryInit ==
    /\ scheme = Unused /\ data = Unused /\ chunks = Unused /\ node = Unused
    /\ coordinator = RecoveryCoordinator_new
    /\ \E c \in with_nodes(1) : cluster = set_scheme(c, SimpleParityScheme(1, 1))
    /\ history = [scheduled |-> 0, executed |-> <<>>]
    /\ out = Call("new", Ok(<<>>))

ScheduleRecovery ==
    /\ history.scheduled < MaxEvents
    /\ \E t \in RecoveryTypes, ts \in 1..MaxTime :
        LET event == RecoveryEvent(get_primary_node_id([recovery_type |-> t]), ts, t,
                                   "ImmediateRestart", history.scheduled + 1)
        IN  coordinator' = schedule_recovery(coordinator, event)
    /\ history' = [history EXCEPT !.scheduled = @ + 1]
    /\ out' = Call("schedule_recovery", Ok(<<>>))
    /\ UNCHANGED <<scheme, data, chunks, node, cluster>>

ProcessAt(now) ==
    /\ \E r \in {process_recovery_events(coordinator, cluster, now)} :
           /\ coordinator' = r.coordinator
           /\ cluster' = r.cluster
           /\ out' = Call("process_recovery_events", r.res)
           /\ history' = [history EXCEPT !.executed = @ \o r.executed]
    /\ UNCHANGED <<scheme, data, chunks, node>>

ProcessRecoveryEvents == \E now \in 0..MaxTime : ProcessAt(now)

RecoveryNext ==
    \/ ScheduleRecovery \/ ProcessRecoveryEvents \/ FailNode \/ DegradeNode

SpecRecovery == RecoveryInit /\ [][RecoveryNext]_vars

\* ---------------------------------------------------------------- simulator driver
\* A demo run: a simulator over a cluster of up to MaxNodes nodes with a
\* (2,1) scheme; scenarios and recoveries in any order, and nodes of its
\* (public) cluster degraded in between.
ScenarioSizes == 0..(MaxNodes + 1)
Percents == {0, 50, 100}

SimulatorInit ==
    /\ scheme = Unused /\ data = Unused /\ chunks = Unused /\ node = Unused
    /\ coordinator = Unused /\ history = Unused
    /\ \E n \in 0..MaxNodes :
        \E c \in {x \in with_nodes(n) : SampleOrder(x.order)} :
            cluster = set_scheme(c, SimpleParityScheme(2, 1))
    /\ out = Call("new", Ok(<<>>))

SingleNodeFailure ==
    /\ \E r \in simulate_single_failure(cluster) :
          cluster' = r.cluster /\ out' = Call("SingleNodeFailure", r.res)
    /\ UNCHANGED <<scheme, data, chunks, node, coordinator, history>>

CascadingFailures ==
    /\ \E count \in ScenarioSizes : \E r \in simulate_cascading_failures(cluster, count) :
          cluster' = r.cluster /\ out' = Call("CascadingFailures", r.res)
    /\ UNCHANGED <<scheme, data, chunks, node, coordinator, history>>

RandomFailures ==
    /\ \E p \in Percents : \E r \in simulate_random_failures(cluster, p) :
          cluster' = r.cluster /\ out' = Call("RandomFailures", r.res)
    /\ UNCHANGED <<scheme, data, chunks, node, coordinator, history>>

NetworkPartition ==
    /\ \E n \in ScenarioSizes : \E r \in simulate_network_partition(cluster, n) :
          cluster' = r.cluster /\ out' = Call("NetworkPartition", r.res)
    /\ UNCHANGED <<scheme, data, chunks, node, coordinator, history>>

RecoverRandomNode ==
    /\ \E r \in recover_random_node(cluster) :
          cluster' = r.cluster /\ out' = Call("recover_random_node", r.res)
    /\ UNCHANGED <<scheme, data, chunks, node, coordinator, history>>

RecoverAllNodes ==
    /\ \E r \in {recover_all_nodes(cluster)} :
          cluster' = r.cluster /\ out' = Call("recover_all_nodes", r.res)
    /\ UNCHANGED <<scheme, data, chunks, node, coordinator, history>>

SimDegradeNode ==
    /\ \E id \in 0..MaxNodes : \E r \in {degrade_node(cluster, id)} :
          cluster' = r.cluster /\ out' = Call("degrade_node", r.res)
    /\ UNCHANGED <<scheme, data, chunks, node, coordinator, history>>

SimulatorNext ==
    \/ SingleNodeFailure \/ CascadingFailures \/ RandomFailures \/ NetworkPartition
    \/ RecoverRandomNode \/ RecoverAllNodes \/ SimDegradeNode

SpecSimulator == SimulatorInit /\ [][SimulatorNext]_vars

\* ---------------------------------------------------------------- stats driver
\* RecoveryStats as execute_recovery fills it, one recovery after the other:
\* a success with the time it took, or a failure. The durations are half a
\* millisecond and ten seconds.
Durations == {500, 10000000}

StatsInit ==
    /\ scheme = Unused /\ data = Unused /\ chunks = Unused /\ node = Unused
    /\ cluster = Unused /\ history = Unused
    /\ coordinator = [RecoveryCoordinator_new EXCEPT !.stats = RecoveryStats_timed]
    /\ out = Call("default", Ok(<<>>))

SuccessfulRecovery ==
    /\ total_attempts(coordinator.stats) < MaxAttempts
    /\ \E duration \in Durations :
          coordinator' = [coordinator EXCEPT !.stats = RecordSuccess(@, duration)]
    /\ UNCHANGED <<scheme, data, chunks, node, cluster, out, history>>

FailedRecovery ==
    /\ total_attempts(coordinator.stats) < MaxAttempts
    /\ coordinator' = [coordinator EXCEPT !.stats = RecordFailure(@)]
    /\ UNCHANGED <<scheme, data, chunks, node, cluster, out, history>>

StatsNext == SuccessfulRecovery \/ FailedRecovery

SpecStats == StatsInit /\ [][StatsNext]_vars

\* ---------------------------------------------------------------- scenarios driver
\* A caller in the shape of test_failure_scenarios: the canned schedules for
\* lists of up to MaxNodes node ids. history is the input of the last call,
\* out the events it returned. The intervals are 0, half a millisecond, one
\* millisecond, one and a half, and one second.
ScenarioNodes == UNION {[1..n -> 0..(MaxNodes - 1)] : n \in 0..MaxNodes}
Intervals == {0, 500, 1000, 1500, 1000000}

ScenariosInit ==
    /\ scheme = Unused /\ data = Unused /\ chunks = Unused /\ node = Unused
    /\ cluster = Unused /\ coordinator = Unused /\ history = Unused
    /\ out = Call("new", Ok(<<>>))

RackFailure ==
    /\ \E rack_nodes \in ScenarioNodes :
        /\ out' = Call("rack_failure", Ok(rack_failure(rack_nodes)))
        /\ history' = [node_ids |-> rack_nodes, interval |-> 0]
    /\ UNCHANGED <<scheme, data, chunks, node, cluster, coordinator>>

RollingFailure ==
    /\ \E ids \in ScenarioNodes, interval \in Intervals :
        /\ out' = Call("rolling_failure", Ok(rolling_failure(ids, interval)))
        /\ history' = [node_ids |-> ids, interval |-> interval]
    /\ UNCHANGED <<scheme, data, chunks, node, cluster, coordinator>>

ScenariosNext == RackFailure \/ RollingFailure

SpecScenarios == ScenariosInit /\ [][ScenariosNext]_vars

\* ---------------------------------------------------------------- codec claims
NoTrailingZero(p) == p = <<>> \/ p[Len(p)] # 0
DecodeDone == out.op = "decode" /\ Len(chunks) = total_chunks(scheme)
AbsentData == {i \in 1..scheme.data_chunks : ~chunks[i].some}
PresentParity == {i \in (scheme.data_chunks + 1)..Len(chunks) : chunks[i].some}
Present == {i \in 1..Len(chunks) : chunks[i].some}

\* C1: with every one of the k+m positions present (k, m >= 1), decode of the
\* chunks of encode(payload) returns exactly payload, for a payload that is
\* empty or ends in a non-zero byte.
C1_RoundTrip ==
    (/\ DecodeDone
     /\ scheme.parity_chunks >= 1
     /\ Cardinality(Present) = Len(chunks)
     /\ NoTrailingZero(data))
    => out.res = Ok(data)

C1_Witness ==
    /\ DecodeDone
    /\ scheme.data_chunks = 2 /\ scheme.parity_chunks >= 1
    /\ Cardinality(Present) = Len(chunks)
    /\ Len(data) = 3 /\ NoTrailingZero(data)
    /\ out.res = Ok(data)

\* C2 (as claimed): one data position absent, every other data position
\* present and at least one parity position present: decode returns payload.
C2_SingleDataLoss ==
    (/\ DecodeDone
     /\ scheme.parity_chunks >= 1
     /\ data # <<>> /\ NoTrailingZero(data)
     /\ Cardinality(AbsentData) = 1
     /\ PresentParity # {})
    => out.res = Ok(data)

\* C4 (as claimed): with at most m positions absent, whichever they are,
\* decode returns payload.
C4_UpToParityFailures ==
    (/\ DecodeDone
     /\ scheme.parity_chunks >= 1
     /\ data # <<>> /\ NoTrailingZero(data)
     /\ Len(chunks) - Cardinality(Present) <= scheme.parity_chunks)
    => out.res = Ok(data)

\* C5 (as claimed): two or more data positions absent: decode fails with
\* UnsupportedRecovery.
C5_AlwaysUnsupported ==
    (DecodeDone /\ Cardinality(AbsentData) >= 2)
    => (~out.res.ok /\ out.res.err = ErrUnsupportedRecovery)

\* C5 (amended): two or more data positions absent: decode never returns a
\* payload; it fails with InsufficientChunks when fewer than k positions are
\* present and with UnsupportedRecovery otherwise.
C5_FailsTyped ==
    (DecodeDone /\ Cardinality(AbsentData) >= 2)
    => /\ ~out.res.ok
       /\ out.res.err = IF Cardinality(Present) < scheme.data_chunks
                        THEN ErrInsufficientChunks
                        ELSE ErrUnsupportedRecovery

C5_Witness ==
    /\ DecodeDone
    /\ Cardinality(AbsentData) >= 2
    /\ Cardinality(Present) >= scheme.data_chunks
    /\ out.res = Err(ErrUnsupportedRecovery)

CeilDiv(n, k) == CHOOSE q \in 0..n : q * k >= n /\ \A r \in 0..(q - 1) : r * k < n

\* bit b (1, 2, 4, ...) of x
Bit(x, b) == (x \div b) % 2
BitWeights == {1, 2, 4, 8, 16, 32, 64, 128}

\* x is the XOR of the bytes c[j], c ranging over the chunks at indices idx
IsXorOf(x, cs, idx, j) ==
    \A b \in BitWeights :
        Bit(x, b) = Cardinality({i \in idx : Bit(cs[i][j], b) = 1}) % 2

SampleData == {<<>>, <<1>>, <<2, 1>>, <<1, 0, 2>>, <<2, 2, 1, 1>>}

AllAvailable(c) == \A id \in DOMAIN c.nodes : is_available(c.nodes[id])
FailedNodes(c) == {id \in DOMAIN c.nodes : c.nodes[id].state = "Failed"}

\* store_data(key, d) returns Ok and, after fail_node(id), retrieve_data(key)
\* returns d, for every key, d and node id
SurvivesAnyOneFailure(c) ==
    \A key \in Keys, d \in SampleData, id \in DOMAIN c.nodes :
        LET st == store_data(c, key, d)
            fl == fail_node(st.cluster, id)
        IN  /\ st.res.ok /\ fl.res.ok
            /\ retrieve_data(fl.cluster, key) = Ok(d)

\* C3 (as claimed): with a scheme configured, at least k+m nodes and every
\* node available, a stored payload survives the failure of any one node.
C3_AnyScheme ==
    (/\ cluster.scheme.some
     /\ node_count(cluster) >= total_chunks(cluster.scheme.v)
     /\ AllAvailable(cluster))
    => SurvivesAnyOneFailure(cluster)

\* C3 (amended): the same for a scheme with at least one parity chunk (m >= 1).
C3_SurvivesOneFailure ==
    (/\ cluster.scheme.some
     /\ cluster.scheme.v.parity_chunks >= 1
     /\ node_count(cluster) >= total_chunks(cluster.scheme.v)
     /\ AllAvailable(cluster))
    => SurvivesAnyOneFailure(cluster)

\* a stored payload, then the node holding data chunk 1 failed, and
\* retrieve_data rebuilds the payload from the parity chunk
C3_Witness ==
    /\ out = Call("store_data", Ok(<<>>))
    /\ cluster.scheme.some
    /\ cluster.scheme.v.data_chunks >= 2
    /\ Len(cluster.order) >= 3
    /\ Cardinality(FailedNodes(cluster)) = 1
    /\ cluster.order[2] \in FailedNodes(cluster)
    /\ "a_1" \in DOMAIN cluster.nodes[cluster.order[2]].data
    /\ retrieve_data(cluster, "a") = Ok(<<1, 0, 2>>)

\* C8: can_recover(n) is n >= k for every n in 0..k+m; can_recover_data is
\* can_recover of the number of nodes that are not Failed when a scheme is
\* configured and false otherwise, whatever the key and the chunks stored.
C8_CanRecover ==
    LET notFailed == Cardinality((DOMAIN cluster.nodes) \ FailedNodes(cluster))
    IN  /\ cluster.scheme.some =>
              \A n \in 0..total_chunks(cluster.scheme.v) :
                  can_recover(cluster.scheme.v, n) <=> ~(n < cluster.scheme.v.data_chunks)
        /\ \A key \in Keys \cup {""} :
              can_recover_data(cluster, key)
                  <=> (cluster.scheme.some /\ ~(notFailed < cluster.scheme.v.data_chunks))

\* enough nodes only because a Degraded one counts, with chunks stored
C8_Witness ==
    /\ cluster.scheme.some
    /\ healthy_node_count(cluster) < cluster.scheme.v.data_chunks
    /\ FailedNodes(cluster) # {}
    /\ can_recover_data(cluster, "a")
    /\ \E id \in DOMAIN cluster.nodes : DOMAIN cluster.nodes[id].data # {}

\* ---------------------------------------------------------------- node claims
NodeUnavailable == {ErrNodeStore, ErrNodeRetrieve, ErrNodeDelete}
StorageOps == {"store", "retrieve", "delete", "list_keys"}

\* what a storage call that has just returned did to an available node
StorageStepOk ==
    /\ out'.res.ok
    /\ node'.state = node.state
    /\ out'.op = "store" =>
          \E key \in NodeKeys :
              /\ key \in DOMAIN node'.data
              /\ \A x \in (DOMAIN node.data) \ {key} :
                    x \in DOMAIN node'.data /\ node'.data[x] = node.data[x]
              /\ DOMAIN node'.data = (DOMAIN node.data) \cup {key}
    /\ out'.op = "retrieve" =>
          /\ node' = node
          /\ \E key \in NodeKeys :
                out'.res.val = IF key \in DOMAIN node.data
                               THEN Some(node.data[key]) ELSE None
    /\ out'.op = "delete" =>
          \E key \in NodeKeys :
              /\ DOMAIN node'.data = (DOMAIN node.data) \ {key}
              /\ \A x \in DOMAIN node'.data : node'.data[x] = node.data[x]
    /\ out'.op = "list_keys" =>
          node' = node /\ out'.res.val = DOMAIN node.data

\* C9: on a Failed node store, retrieve and delete return NodeUnavailable and
\* change nothing of the node, and list_keys returns the empty list; on a
\* Healthy or Degraded node the same calls succeed.
C9_FailedNodeRejects ==
    [][out'.op \in StorageOps =>
         IF node.state = "Failed"
         THEN /\ node' = node
              /\ IF out'.op = "list_keys"
                 THEN out'.res = Ok({})
                 ELSE ~out'.res.ok /\ out'.res.err \in NodeUnavailable
         ELSE StorageStepOk]_vars

C9_Witness ==
    /\ node.state = "Failed"
    /\ out.op = "store" /\ out.res = Err(ErrNodeStore)
    /\ DOMAIN node.data # {}

C11_StoreRejects ==
    \A key \in Keys, d \in SampleData :
        LET r == store_data(cluster, key, d)
            n == Cardinality(DOMAIN cluster.nodes)
        IN  /\ ~cluster.scheme.some =>
                  r.res = Err(ErrNoScheme) /\ r.cluster = cluster
            /\ cluster.scheme.some =>
                  IF cluster.scheme.v.data_chunks + cluster.scheme.v.parity_chunks > n
                  THEN r.res = Err(ErrNotEnoughNodes) /\ r.cluster = cluster
                  ELSE r.res # Err(ErrNotEnoughNodes)

\* a store turned down for want of nodes, on a cluster with a Failed node
C11_Witness ==
    /\ out = Call("store_data", Err(ErrNotEnoughNodes))
    /\ FailedNodes(cluster) # {}
    /\ cluster.scheme.v.parity_chunks >= 1
    /\ \A id \in DOMAIN cluster.nodes : cluster.nodes[id].stats = StorageStats_new

\* the node map data with value v under key ck, every other entry kept
WithChunk(mp, ck, v) ==
    [x \in (DOMAIN mp) \cup {ck} |-> IF x = ck THEN v ELSE mp[x]]

\* C12: a store_data that passes the scheme and node-count checks returns Ok;
\* the node at position i of the enumeration (i < k+m) gets chunk i of
\* encode(payload) under "{key}_{i}" when it is available and nothing when it
\* is Failed; nodes at positions >= k+m get nothing; nothing else changes.
C12_StoreDistributes ==
    \A key \in Keys, d \in SampleData :
        (cluster.scheme.some
            /\ total_chunks(cluster.scheme.v) <= Cardinality(DOMAIN cluster.nodes))
        => LET r == store_data(cluster, key, d)
               cs == encode(cluster.scheme.v, d).val
           IN  /\ r.res = Ok(<<>>)
               /\ DOMAIN r.cluster.nodes = DOMAIN cluster.nodes
               /\ r.cluster.order = cluster.order
               /\ r.cluster.scheme = cluster.scheme
               /\ \A i \in 1..Len(cluster.order) :
                     LET old == cluster.nodes[cluster.order[i]]
                         new == r.cluster.nodes[cluster.order[i]]
                     IN  IF i <= Len(cs) /\ old.state # "Failed"
                         THEN /\ new.data =
                                   WithChunk(old.data, key \o "_" \o ToString(i - 1), cs[i])
                              /\ new.state = old.state /\ new.id = old.id
                         ELSE new = old

\* a store that returned Ok: the first node was Failed and got nothing, the
\* second holds chunk 1, the node past k+m got nothing
C12_Witness ==
    /\ out = Call("store_data", Ok(<<>>))
    /\ Len(cluster.order) = 3
    /\ total_chunks(cluster.scheme.v) = 2
    /\ cluster.nodes[cluster.order[1]].state = "Failed"
    /\ DOMAIN cluster.nodes[cluster.order[1]].data = {}
    /\ DOMAIN cluster.nodes[cluster.order[2]].data = {"a_1"}
    /\ DOMAIN cluster.nodes[cluster.order[3]].data = {}

\* the chunk keys of key that node n holds
ChunkKeysOf(n, key, total) ==
    {x \in DOMAIN n.data : \E i \in 0..total : x = key \o "_" \o ToString(i)}

\* C13: with every node available, store_data(key, v1) and then
\* store_data(key, v2) return Ok, retrieve_data(key) returns v2 and no node
\* holds more than one chunk of key, whatever was stored before.
C13_RestoreOverwrites ==
    AllAvailable(cluster) =>
        \A key \in Keys, v1 \in {<<>>, <<2, 0>>, <<2, 2, 1, 1>>}, v2 \in SampleData :
            \A s1 \in {store_data(cluster, key, v1)} :
                \A s2 \in {store_data(s1.cluster, key, v2)} :
                    /\ s1.res.ok /\ s2.res.ok
                    /\ retrieve_data(s2.cluster, key) = Ok(v2)
                    /\ \A id \in DOMAIN s2.cluster.nodes :
                          Cardinality(ChunkKeysOf(s2.cluster.nodes[id], key,
                                                  Cardinality(DOMAIN cluster.nodes))) <= 1

\* the shorter payload stored over the longer one, twice written nodes
C13_Witness ==
    /\ out = Call("store_data", Ok(<<>>))
    /\ AllAvailable(cluster)
    /\ cluster.scheme.v.data_chunks = 2
    /\ \A id \in DOMAIN cluster.nodes :
          /\ cluster.nodes[id].stats.writes = 2
          /\ cluster.nodes[id].stats.total_bytes = 3
          /\ Cardinality(DOMAIN cluster.nodes[id].data) = 1
    /\ retrieve_data(cluster, "a") = Ok(<<1>>)

\* ---------------------------------------------------------------- failure claims
\* C14: on a cluster of exactly k+m nodes with a (k,m) scheme, with more than
\* m nodes Failed can_recover_data is false and retrieve_data fails.
C14_TooManyFailures ==
    (/\ cluster.scheme.some
     /\ Cardinality(DOMAIN cluster.nodes) = total_chunks(cluster.scheme.v)
     /\ Cardinality(FailedNodes(cluster)) > cluster.scheme.v.parity_chunks)
    => \A key \in Keys :
          /\ ~can_recover_data(cluster, key)
          /\ ~retrieve_data(cluster, key).ok

\* a payload stored on all k+m nodes, then m+1 of them failed
C14_Witness ==
    /\ cluster.scheme.some
    /\ cluster.scheme.v.parity_chunks >= 1
    /\ Cardinality(DOMAIN cluster.nodes) = total_chunks(cluster.scheme.v)
    /\ Cardinality(FailedNodes(cluster)) = cluster.scheme.v.parity_chunks + 1
    /\ \A id \in DOMAIN cluster.nodes : DOMAIN cluster.nodes[id].data # {}
    /\ ~can_recover_data(cluster, "a")
    /\ retrieve_data(cluster, "a") = Err(ErrInsufficientChunks)

NodeNotFound == {ErrNodeNotFound, ErrNodeNotInCluster}

\* the cluster c with the health state of node id set to st, and its latency
WithHealth(c, id, st, lat) ==
    [c EXCEPT !.nodes[id].state = st, !.nodes[id].latency_ms = lat]

\* C15: fail_node, recover_node, degrade_node and remove_node of an id that is
\* not in the cluster fail with NodeNotFound and change nothing; of an id that
\* is, fail/recover/degrade return Ok and change the health state and the
\* latency of that node and nothing else.
C15_HealthOpsFrame ==
    \A id \in 0..(MaxNodes + 1) :
        IF id \notin DOMAIN cluster.nodes
        THEN \A r \in {fail_node(cluster, id), recover_node(cluster, id),
                       degrade_node(cluster, id), remove_node(cluster, id)} :
                /\ ~r.res.ok /\ r.res.err \in NodeNotFound
                /\ r.cluster = cluster
        ELSE /\ fail_node(cluster, id) =
                    [cluster |-> WithHealth(cluster, id, "Failed", 0), res |-> Ok(<<>>)]
             /\ recover_node(cluster, id) =
                    [cluster |-> WithHealth(cluster, id, "Healthy", 10), res |-> Ok(<<>>)]
             /\ degrade_node(cluster, id) =
                    [cluster |-> IF cluster.nodes[id].state = "Healthy"
                                 THEN WithHealth(cluster, id, "Degraded", 100)
                                 ELSE cluster,
                     res |-> Ok(<<>>)]

\* chunks stored on every node, then one node failed and another degraded
C15_Witness ==
    /\ out = Call("store_data", Ok(<<>>))
    /\ Len(cluster.order) = 3
    /\ cluster.nodes[cluster.order[1]].state = "Failed"
    /\ cluster.nodes[cluster.order[2]].state = "Degraded"
    /\ cluster.nodes[cluster.order[3]].state = "Healthy"
    /\ \A id \in DOMAIN cluster.nodes : DOMAIN cluster.nodes[id].data # {}

\* ---------------------------------------------------------------- membership claims
\* C16: every add returns an id greater than every id returned before, also
\* after removals; every registered id is below next_id and is the id field
\* of the node registered under it.
C16_IdsNeverRecycled ==
    [][/\ out'.op \in {"add_node", "add_node_with_state"} =>
            /\ \A j \in history : out'.res.val > j
            /\ out'.res.val \in DOMAIN cluster'.nodes
       /\ \A id \in DOMAIN cluster'.nodes :
            id < cluster'.next_id /\ cluster'.nodes[id].id = id]_vars

\* node 1 was removed and the next add returned 2
C16_Witness ==
    /\ out.op = "add_node" /\ out.res.val = 2
    /\ DOMAIN cluster.nodes = {0, 2}
    /\ history = {0, 1, 2}

\* ---------------------------------------------------------------- health claims
NodesInState(c, st) == {id \in DOMAIN c.nodes : c.nodes[id].state = st}

C18_NeverAborts ==
    /\ out.res # Err(Panic)
    /\ \A key \in Keys : retrieve_data(cluster, key) # Err(Panic)

\* ---------------------------------------------------------------- recovery claims
SeqsOf(es) == {es[i].seq : i \in 1..Len(es)}

\* by timestamp, events of one timestamp in the order they were scheduled
InScheduleOrder(es) ==
    \A i, j \in 1..Len(es) :
        i < j => \/ es[i].timestamp < es[j].timestamp
                 \/ es[i].timestamp = es[j].timestamp /\ es[i].seq < es[j].seq

C20_NodeRestart ==
    \A id \in 0..(MaxNodes + 1) :
        LET e == RecoveryEvent(id, 1, NodeRestart(id), "ImmediateRestart", 0)
            r == execute_recovery(coordinator, cluster, e)
            st == coordinator.stats
        IN  /\ r.res.ok
            /\ r.res.val.node_id = id
            /\ r.coordinator.recovery_schedule = coordinator.recovery_schedule
            /\ IF id \in DOMAIN cluster.nodes /\ cluster.nodes[id].state = "Failed"
               THEN /\ r.res.val.success
                    /\ r.cluster = WithHealth(cluster, id, "Healthy", 10)
                    /\ r.coordinator.stats =
                          [st EXCEPT !.successful_recoveries = @ + 1]
               ELSE /\ ~r.res.val.success
                    /\ r.cluster = cluster
                    /\ r.coordinator.stats = [st EXCEPT !.failed_recoveries = @ + 1]

\* two restarts of node 0 processed in one call: the first found it Failed
\* and succeeded, the second found it Healthy and did not
C20_Witness ==
    /\ out.op = "process_recovery_events"
    /\ Len(out.res.val) = 2
    /\ out.res.val[1].node_id = 0 /\ out.res.val[1].success
    /\ out.res.val[2].node_id = 0 /\ ~out.res.val[2].success
    /\ cluster.nodes[0].state = "Healthy"
    /\ coordinator.stats = [successful_recoveries |-> 1, failed_recoveries |-> 1]

\* ---------------------------------------------------------------- rebuild and repair claims
RebuildKeys == {<<"a">>, <<"a", "b">>, <<"a", "a">>}

\* one key's round trip through the cluster: retrieve_data, then store_data of
\* the retrieved bytes; ok when both returned Ok
RoundTrip(c, key) ==
    LET got == retrieve_data(c, key)
    IN  IF got.ok
        THEN LET st == store_data(c, key, got.val)
             IN  [cluster |-> st.cluster, ok |-> st.res.ok]
        ELSE [cluster |-> c, ok |-> FALSE]

\* every key of keys round-trips, one after the other
RECURSIVE AllRoundTrip(_, _)
AllRoundTrip(c, keys) ==
    IF keys = <<>> THEN TRUE
    ELSE LET rt == RoundTrip(c, Head(keys))
         IN  rt.ok /\ AllRoundTrip(rt.cluster, Tail(keys))

\* C21 (as claimed): a DataRebuild(id, keys) event makes node id Healthy if it
\* was Failed and changes no other node's health, whether or not it succeeds;
\* it reports success exactly when every key round-trips through
\* retrieve_data and store_data; after a successful rebuild retrieve_data of
\* each key returns what it returned before the event.
C21_DataRebuild ==
    \A id \in 0..MaxNodes, keys \in RebuildKeys :
        \A r \in {execute_recovery(RecoveryCoordinator_new, cluster,
                      RecoveryEvent(id, 1, DataRebuild(id, keys), "GradualRecovery", 0))} :
            /\ \A n \in DOMAIN cluster.nodes :
                  r.cluster.nodes[n].state =
                      IF n = id /\ cluster.nodes[n].state = "Failed" THEN "Healthy"
                      ELSE cluster.nodes[n].state
            /\ (r.res.ok /\ r.res.val.success) <=>
                  AllRoundTrip(IF id \in DOMAIN cluster.nodes
                                  /\ cluster.nodes[id].state = "Failed"
                               THEN recover_node(cluster, id).cluster ELSE cluster, keys)
            /\ (r.res.ok /\ r.res.val.success) =>
                  \A i \in 1..Len(keys) :
                      \A before \in {retrieve_data(cluster, keys[i])} :
                          before.ok => retrieve_data(r.cluster, keys[i]) = before

\* lists of node ids a NetworkRepair event names: empty, one id, two ids
\* (the same id twice included), present or not
RepairIds == {<<>>} \cup {<<a>> : a \in 0..MaxIds} \cup {<<a, b>> : a, b \in 0..MaxIds}

\* C22: a NetworkRepair(ids) event makes every listed node that exists
\* Healthy, Degraded ones included, and changes no other node; it returns Ok,
\* and reports success exactly when every listed id exists.
C22_NetworkRepair ==
    \A ids \in RepairIds :
        \A r \in {execute_recovery(RecoveryCoordinator_new, cluster,
                      RecoveryEvent(get_primary_node_id([recovery_type |-> NetworkRepair(ids)]),
                                    1, NetworkRepair(ids), "NetworkAware", 0))} :
            LET listed == {ids[i] : i \in 1..Len(ids)}
            IN  /\ r.res.ok
                /\ r.res.val.success = (listed \subseteq DOMAIN cluster.nodes)
                /\ DOMAIN r.cluster.nodes = DOMAIN cluster.nodes
                /\ \A n \in DOMAIN cluster.nodes :
                      r.cluster.nodes[n] =
                          IF n \in listed THEN recover(cluster.nodes[n])
                          ELSE cluster.nodes[n]
                /\ \A n \in listed \cap DOMAIN cluster.nodes :
                      r.cluster.nodes[n].state = "Healthy"
                /\ r.cluster.order = cluster.order
                /\ r.cluster.next_id = cluster.next_id

\* node 0 was removed, node 1 is Degraded and node 2 Failed: repairing 1 and 2
\* succeeds and makes both Healthy, repairing 0 and 1 does not succeed
C22_Witness ==
    /\ DOMAIN cluster.nodes = {1, 2}
    /\ cluster.nodes[1].state = "Degraded" /\ cluster.nodes[2].state = "Failed"
    /\ \A r \in {repair_network(cluster, <<1, 2>>)} :
          /\ r.res = Ok(TRUE)
          /\ r.cluster.nodes[1].state = "Healthy" /\ r.cluster.nodes[2].state = "Healthy"
    /\ repair_network(cluster, <<0, 1>>).res = Ok(FALSE)

\* ---------------------------------------------------------------- planning claims
\* lists of failed nodes handed to plan_recovery_strategy: none, one, two
\* (also the same twice, and ids that name no node), and the three of
\* test_recovery_planning
FailedLists ==
    {<<>>, <<0, 1, 2>>} \cup {<<a>> : a \in 0..MaxNodes}
        \cup {<<a, b>> : a, b \in 0..MaxNodes}

\* C23: plan_recovery_strategy returns one NodeRestart event per entry of
\* failed_nodes, in input order, the first at 1 s and the following ones
\* later by a fixed spacing each: 100 ms with ImmediateRestart when no scheme
\* can recover or at most one node is Healthy (the cluster is critical),
\* 2 s with GradualRecovery otherwise.
C23_PlanRecovery ==
    \A failed_nodes \in FailedLists :
        LET plan == plan_recovery_strategy(RecoveryCoordinator_new, cluster, failed_nodes)
            critical == \/ ~can_recover_data(cluster, "a")
                        \/ Cardinality(NodesInState(cluster, "Healthy")) <= 1
        IN  /\ Len(plan) = Len(failed_nodes)
            /\ \A i \in 1..Len(plan) :
                  /\ plan[i].recovery_type = NodeRestart(failed_nodes[i])
                  /\ plan[i].node_id = failed_nodes[i]
                  /\ plan[i].strategy =
                        IF critical THEN "ImmediateRestart" ELSE "GradualRecovery"
                  /\ plan[i].timestamp =
                        1000 + (i - 1) * (IF critical THEN 100 ELSE 2000)
            /\ Len(plan) >= 1 => plan[1].timestamp = 1000
            /\ \A i \in 1..(Len(plan) - 1) : plan[i].timestamp <= plan[i + 1].timestamp
            /\ is_critical(health_status(cluster)) = critical

\* three Healthy nodes hold a stored payload under a (2,1) scheme: the plan
\* for two failed nodes is gradual, 2 s apart
C23_Witness ==
    /\ cluster.scheme = Some(SimpleParityScheme(2, 1))
    /\ Cardinality(NodesInState(cluster, "Healthy")) = 3
    /\ out = Call("store_data", Ok(<<>>))
    /\ \A plan \in {plan_recovery_strategy(RecoveryCoordinator_new, cluster, <<2, 0>>)} :
          /\ plan[1].strategy = "GradualRecovery" /\ plan[1].timestamp = 1000
          /\ plan[2].recovery_type = NodeRestart(0) /\ plan[2].timestamp = 3000

\* ---------------------------------------------------------------- simulator claims
\* C24: a SingleNodeFailure scenario run while some node is available returns
\* Ok and turns one available (Healthy or Degraded) node Failed, every other
\* node and the rest of the cluster staying as they were; run while no node is
\* available it returns an error and changes nothing.
C24_SingleNodeFailure ==
    [][out'.op = "SingleNodeFailure" =>
          IF AvailableIds(cluster) = {}
          THEN ~out'.res.ok /\ cluster' = cluster
          ELSE /\ out'.res.ok
               /\ \E id \in AvailableIds(cluster) :
                     cluster' = WithHealth(cluster, id, "Failed", 0)
               /\ Cardinality(FailedNodes(cluster')) = Cardinality(FailedNodes(cluster)) + 1]_vars

\* the scenario has just failed a node of a three-node cluster: two nodes are
\* Failed now and the third is Degraded
C24_Witness ==
    /\ out.op = "SingleNodeFailure" /\ out.res.ok
    /\ Cardinality(DOMAIN cluster.nodes) = 3
    /\ Cardinality(NodesInState(cluster, "Degraded")) = 1
    /\ Cardinality(FailedNodes(cluster)) = 2

\* c2 is c with the nodes ids turned Failed and nothing else changed
OnlyFailed(c, c2, ids) ==
    c2 = [c EXCEPT !.nodes = [id \in DOMAIN c.nodes |->
                                 IF id \in ids
                                 THEN [c.nodes[id] EXCEPT !.state = "Failed", !.latency_ms = 0]
                                 ELSE c.nodes[id]]]

\* C25: a CascadingFailures(count) scenario run with a nodes available returns
\* Ok after min(count, a) single failures: each of them leaves one available
\* node fewer than the one before, and at the end min(count, a) more nodes
\* are Failed and no node that was Failed has changed.
C25_CascadingFailures ==
    \A count \in ScenarioSizes :
        \A r \in simulate_cascading_failures(cluster, count) :
            LET a == available_node_count(cluster)
                k == Min(count, a)
            IN  /\ r.res.ok
                /\ Len(r.steps) = k
                /\ \A i \in 1..k : available_node_count(r.steps[i]) = a - i
                /\ r.cluster = IF k = 0 THEN cluster ELSE r.steps[k]
                /\ FailedNodes(cluster) \subseteq FailedNodes(r.cluster)
                /\ Cardinality(FailedNodes(r.cluster)) = Cardinality(FailedNodes(cluster)) + k
                /\ \E ids \in SUBSET AvailableIds(cluster) : OnlyFailed(cluster, r.cluster, ids)

\* a cascade has just ended on a three-node cluster with every node Failed
C25_Witness ==
    /\ out.op = "CascadingFailures" /\ out.res.ok
    /\ Cardinality(DOMAIN cluster.nodes) = 3
    /\ AvailableIds(cluster) = {}

\* C26: a NetworkPartition(n) scenario run with at least n nodes available
\* returns Ok and turns n different available nodes Failed, changing nothing
\* else; run with fewer than n available it returns an error and the cluster
\* stays as it was.
C26_NetworkPartition ==
    \A n \in ScenarioSizes :
        \A r \in simulate_network_partition(cluster, n) :
            IF available_node_count(cluster) < n
            THEN ~r.res.ok /\ r.cluster = cluster
            ELSE /\ r.res.ok
                 /\ \E ids \in SUBSET AvailableIds(cluster) :
                       Cardinality(ids) = n /\ OnlyFailed(cluster, r.cluster, ids)
                 /\ Cardinality(FailedNodes(r.cluster)) = Cardinality(FailedNodes(cluster)) + n

\* a partition has just failed nodes of a three-node cluster: two are Failed,
\* one is still Healthy
C26_Witness ==
    /\ out.op = "NetworkPartition" /\ out.res.ok
    /\ Cardinality(DOMAIN cluster.nodes) = 3
    /\ Cardinality(FailedNodes(cluster)) = 2
    /\ Cardinality(NodesInState(cluster, "Healthy")) = 1

\* C27: recover_all_nodes returns the number of nodes that were Failed and
\* makes each of them Healthy, so that none is Failed afterwards, and leaves
\* the others (Degraded ones stay Degraded) as they were; recover_random_node
\* returns false and changes nothing when no node is Failed, and otherwise
\* returns true and makes one Failed node Healthy, changing nothing else.
C27_Recover ==
    [][/\ out'.op = "recover_all_nodes" =>
            /\ out'.res = Ok(Cardinality(FailedNodes(cluster)))
            /\ FailedNodes(cluster') = {}
            /\ NodesInState(cluster', "Degraded") = NodesInState(cluster, "Degraded")
            /\ cluster' = [cluster EXCEPT !.nodes =
                              [id \in DOMAIN cluster.nodes |->
                                  IF id \in FailedNodes(cluster)
                                  THEN [cluster.nodes[id] EXCEPT !.state = "Healthy",
                                                                 !.latency_ms = 10]
                                  ELSE cluster.nodes[id]]]
       /\ out'.op = "recover_random_node" =>
            IF FailedNodes(cluster) = {}
            THEN out'.res = Ok(FALSE) /\ cluster' = cluster
            ELSE /\ out'.res = Ok(TRUE)
                 /\ \E id \in FailedNodes(cluster) :
                       cluster' = WithHealth(cluster, id, "Healthy", 10)
                 /\ Cardinality(FailedNodes(cluster')) =
                       Cardinality(FailedNodes(cluster)) - 1]_vars

\* recover_all_nodes has just recovered two Failed nodes; the third node is
\* still Degraded
C27_Witness ==
    /\ out.op = "recover_all_nodes" /\ out.res.val = 2
    /\ Cardinality(DOMAIN cluster.nodes) = 3
    /\ Cardinality(NodesInState(cluster, "Healthy")) = 2
    /\ Cardinality(NodesInState(cluster, "Degraded")) = 1

\* ---------------------------------------------------------------- padding claims
\* d up to its last non-zero byte
UpToLastNonZero(d) ==
    LET nz == {i \in 1..Len(d) : d[i] # 0}
    IN  SubSeq(d, 1, IF nz = {} THEN 0 ELSE CHOOSE i \in nz : \A j \in nz : j <= i)

\* C28: every successful decode returns a buffer that is empty or ends in a
\* non-zero byte; decode of all the chunks of encode(payload) returns payload
\* up to its last non-zero byte, so a payload ending in zero bytes comes back
\* without them.
C28_StripsTrailingZeros ==
    DecodeDone =>
        /\ out.res.ok => (out.res.val = <<>> \/ out.res.val[Len(out.res.val)] # 0)
        /\ Cardinality(Present) = Len(chunks) => out.res = Ok(UpToLastNonZero(data))

\* a payload of three bytes ending in two zero bytes came back as its first byte
C28_Witness ==
    /\ DecodeDone
    /\ Cardinality(Present) = Len(chunks)
    /\ Len(data) = 3 /\ data[1] # 0 /\ data[2] = 0 /\ data[3] = 0
    /\ out.res = Ok(<<data[1]>>)

\* ---------------------------------------------------------------- stats claims
\* C29: success_rate is 100 * successes / (successes + failures), and 100
\* without attempts; average_recovery_time is total_recovery_time divided by
\* the successes, in whole milliseconds, and 0 without successes;
\* total_attempts is successes + failures; after 8 successes and 2 failures
\* that took 80 s they are 80, 10 s and 10.
C29_DerivedStats ==
    LET st == coordinator.stats
        s == st.successful_recoveries
        f == st.failed_recoveries
        rate == success_rate(st)
    IN  /\ total_attempts(st) = s + f
        /\ rate.den > 0
        /\ rate.num * (IF s + f = 0 THEN 1 ELSE s + f)
              = (IF s + f = 0 THEN 100 ELSE 100 * s) * rate.den
        /\ average_recovery_time(st) =
              IF s = 0 THEN 0 ELSE (st.total_recovery_time \div (1000 * s)) * 1000
        /\ (s = 8 /\ f = 2 /\ st.total_recovery_time = 80000000) =>
              /\ rate.num = 80 * rate.den
              /\ total_attempts(st) = 10
              /\ average_recovery_time(st) = 10000000

\* eight successes of ten seconds each and two failures: the rate is 80, the
\* average 10 s, the attempts 10
C29_Witness ==
    /\ coordinator.stats = [successful_recoveries |-> 8, failed_recoveries |-> 2,
                            total_recovery_time |-> 80000000]
    /\ success_rate(coordinator.stats).num = 80 * success_rate(coordinator.stats).den
    /\ average_recovery_time(coordinator.stats) = 10000000
    /\ total_attempts(coordinator.stats) = 10

\* ---------------------------------------------------------------- staleness claims
\* C30 (as claimed): after any store_data, fail_node and recover_node calls,
\* retrieve_data of the key returns an error or the payload of the last
\* store_data of the key that returned Ok.
C30_LatestOrError ==
    \A r \in {retrieve_data(cluster, "a")} :
        /\ r # Err(Panic)
        /\ r.ok => (history.some /\ r.val = history.v)

\* ---------------------------------------------------------------- C31
\* C31: failure_tolerance() is the number of further nodes that can fail: in
\* every cluster state whose health has can_recover, failing any
\* failure_tolerance() of the available nodes leaves can_recover_data() true.
C31_ToleranceIsSafe ==
    \A h \in {health_status(cluster)} :
        h.can_recover =>
            \A ids \in {x \in SUBSET AvailableIds(cluster) :
                            Cardinality(x) = failure_tolerance(h)} :
                can_recover_data(FailAll(cluster, ids), "")

\* ---------------------------------------------------------------- C32
\* the chunks and the bytes the nodes of the cluster hold, counted from i on
RECURSIVE HeldFrom(_, _)
HeldFrom(c, i) ==
    IF i > Len(c.order) THEN [chunks |-> 0, bytes |-> 0]
    ELSE LET n == c.nodes[c.order[i]]
             rest == HeldFrom(c, i + 1)
         IN  [chunks |-> chunk_count(n) + rest.chunks,
              bytes |-> bytes_stored(n) + rest.bytes]

\* C32: after any sequence of store_data calls, re-stores of a key included,
\* get_statistics().total_chunks is the number of chunks the nodes hold and
\* total_bytes the number of bytes they hold: the counters of every node
\* equal its chunk_count() and bytes_stored().
C32_StatisticsMatchHeld ==
    \A st \in {get_statistics(cluster)} :
        /\ st.total_chunks = HeldFrom(cluster, 1).chunks
        /\ st.total_bytes = HeldFrom(cluster, 1).bytes
        /\ \A id \in DOMAIN cluster.nodes :
              /\ Node_stats(cluster.nodes[id]).total_chunks = chunk_count(cluster.nodes[id])
              /\ Node_stats(cluster.nodes[id]).total_bytes = bytes_stored(cluster.nodes[id])

\* ---------------------------------------------------------------- C33
\* C33: in every state a node reaches through new, with_state, set_state,
\* fail, recover and degrade (and the storage calls in between), latency_ms
\* is 10 for Healthy, 100 for Degraded and 0 for Failed, and is_available()
\* is true exactly when the state is not Failed.
C33_LatencyTable ==
    /\ node.state = "Healthy" => node.latency_ms = 10
    /\ node.state = "Degraded" => node.latency_ms = 100
    /\ node.state = "Failed" => node.latency_ms = 0
    /\ node.state \in {"Healthy", "Degraded", "Failed"}
    /\ is_available(node) <=> node.state \in {"Healthy", "Degraded"}

\* a node that was written to has been degraded
C33_Witness ==
    /\ out.op = "degrade"
    /\ node.state = "Degraded"
    /\ node.latency_ms = 100
    /\ node.stats.writes > 0

\* ---------------------------------------------------------------- C34
\* what C34 says of decode for the scheme s and an input cs of k+m positions
DecodeOkIff(s, cs) ==
    /\ decode(s, cs).ok <=> /\ AvailableCount(cs) >= s.data_chunks
                            /\ Cardinality(MissingIndices(s, cs)) <= 1
    /\ decode(s, cs) # Err(ErrNoParity)
    /\ ~decode(s, Append(cs, None)).ok
    /\ ~decode(s, SubSeq(cs, 1, Len(cs) - 1)).ok

\* C34: for the k+m positions retrieve_data collects for a key, decode
\* returns Ok exactly when at least k positions are present and at most one
\* data position is absent, never the 'no parity chunk' error, and an input of
\* another length is an error.
C34_DecodeOkIff ==
    \A cs \in {CollectChunks(cluster, "a")} : DecodeOkIff(cluster.scheme.v, cs)

\* the same on what encode produced, with any chunks lost: there it holds
C34_OnEncoded == out.op = "encode" => DecodeOkIff(scheme, chunks)

\* ---------------------------------------------------------------- C35
\* c2 has the node ids of c, and every node holds in c2 what it holds in c
SameStored(c, c2) ==
    /\ DOMAIN c2.nodes = DOMAIN c.nodes
    /\ \A id \in DOMAIN c.nodes : c2.nodes[id].data = c.nodes[id].data

\* C35: fail_node, recover_node, degrade_node, every Simulator failure
\* scenario, recover_random_node and recover_all_nodes leave the chunks of
\* every node and the set of node ids as they were; a chunk a node holds is
\* returned by the node's retrieve after the node has failed and recovered.
C35_HealthOpsKeepData ==
    /\ \A id \in 0..MaxNodes :
          /\ SameStored(cluster, fail_node(cluster, id).cluster)
          /\ SameStored(cluster, recover_node(cluster, id).cluster)
          /\ SameStored(cluster, degrade_node(cluster, id).cluster)
    /\ \A r \in simulate_single_failure(cluster) : SameStored(cluster, r.cluster)
    /\ \A count \in ScenarioSizes : \A r \in simulate_cascading_failures(cluster, count) :
          SameStored(cluster, r.cluster)
    /\ \A p \in Percents : \A r \in simulate_random_failures(cluster, p) :
          SameStored(cluster, r.cluster)
    /\ \A n \in ScenarioSizes : \A r \in simulate_network_partition(cluster, n) :
          SameStored(cluster, r.cluster)
    /\ \A r \in recover_random_node(cluster) : SameStored(cluster, r.cluster)
    /\ SameStored(cluster, recover_all_nodes(cluster).cluster)
    /\ \A id \in DOMAIN cluster.nodes : \A ck \in DOMAIN cluster.nodes[id].data :
          \A r \in {recover_node(fail_node(cluster, id).cluster, id).cluster} :
              Node_retrieve(r.nodes[id], ck) = Ok(Some(cluster.nodes[id].data[ck]))

\* every node holds a chunk, one is Failed and the others are available
C35_Witness ==
    /\ \A id \in DOMAIN cluster.nodes : DOMAIN cluster.nodes[id].data # {}
    /\ \E id \in DOMAIN cluster.nodes : cluster.nodes[id].state = "Failed"
    /\ Cardinality(AvailableIds(cluster)) >= 2

\* ---------------------------------------------------------------- C36
\* C36: whenever can_recover_data() returns false, retrieve_data fails for
\* every key: the health check is never false while a key can be retrieved.
C36_UnrecoverableMeansNoRetrieve ==
    \A key \in Keys :
        ~can_recover_data(cluster, key) => ~retrieve_data(cluster, key).ok

\* a scheme is set, too few nodes are available, and an available node
\* holds a chunk of the key
C36_Witness ==
    /\ cluster.scheme.some
    /\ ~can_recover_data(cluster, "a")
    /\ \E id \in AvailableIds(cluster) : DOMAIN cluster.nodes[id].data # {}
    /\ retrieve_data(cluster, "a") = Err(ErrInsufficientChunks)

\* ---------------------------------------------------------------- C37
\* C37: with the nodes enumerated by ascending id, on a cluster of more than
\* k+m nodes, all available, after store_data(key, payload) returned Ok,
\* retrieve_data(key) still returns the payload when any single node has
\* been removed (stated for the schemes with a parity chunk, which tolerate
\* the failure of one node).
C37_SurvivesRemoval ==
    (/\ cluster.scheme.some
     /\ cluster.scheme.v.parity_chunks >= 1
     /\ cluster.order = Ascending(DOMAIN cluster.nodes)
     /\ AllAvailable(cluster)
     /\ node_count(cluster) > total_chunks(cluster.scheme.v))
    => \A d \in TestData : \A r \in {store_data(cluster, "a", d)} :
           r.res.ok =>
               \A id \in DOMAIN cluster.nodes :
                   retrieve_data(remove_node(r.cluster, id).cluster, "a") = Ok(d)

\* ---------------------------------------------------------------- C38
\* a schedule of one event of every recovery type for the node id, due at
\* 0, 1, 1 and 2, as four schedule_recovery calls build it
ScheduleFor(id) ==
    schedule_recovery(schedule_recovery(schedule_recovery(schedule_recovery(
        RecoveryCoordinator_new,
        RecoveryEvent(id, 1, DataRebuild(id, <<"a", "b">>), "GradualRecovery", 1)),
        RecoveryEvent(id, 0, NodeRestart(id), "ImmediateRestart", 2)),
        RecoveryEvent(id, 2, NetworkRepair(<<id, 0>>), "GradualRecovery", 3)),
        RecoveryEvent(id, 1, HotSpareActivation(0, id), "HotSpare", 4))

\* the events of the schedule of co that are due at now
DueCount(co, now) ==
    Cardinality({i \in 1..Len(co.recovery_schedule) :
                    co.recovery_schedule[i].timestamp <= now})

\* what C38 says of process_recovery_events(co, c, now), whose outcome is r
CountsEveryDueEvent(co, now, r) ==
    /\ r.res.ok
    /\ Len(r.res.val) = DueCount(co, now)
    /\ r.coordinator.stats.successful_recoveries + r.coordinator.stats.failed_recoveries
          = co.stats.successful_recoveries + co.stats.failed_recoveries + DueCount(co, now)

\* C38: process_recovery_events returns Ok for every schedule and every
\* cluster state, events that name nonexistent nodes or unrecoverable keys
\* included, with one result per due event, and the two counters of the
\* statistics grow by the number of due events.
C38_EveryDueEventCounted ==
    \A id \in 0..MaxNodes, now \in 0..2 :
        CountsEveryDueEvent(ScheduleFor(id), now,
                            process_recovery_events(ScheduleFor(id), cluster, now))

\* the same for the calls that return at all
C38_WhenItReturns ==
    \A id \in 0..MaxNodes, now \in 0..2 :
        \A r \in {process_recovery_events(ScheduleFor(id), cluster, now)} :
            r.res # Err(Panic) => CountsEveryDueEvent(ScheduleFor(id), now, r)

\* ---------------------------------------------------------------- C39
\* the timestamps of es never decrease
NonDecreasing(es) == \A i \in 1..(Len(es) - 1) : es[i].timestamp <= es[i + 1].timestamp

\* es is one event of failure_type per entry of ids, in the order of ids,
\* entry i (from 0) at base plus i times step
EvenlySpaced(es, ids, failure_type, base, step) ==
    /\ Len(es) = Len(ids)
    /\ \A i \in 1..Len(es) :
          es[i] = [node_id |-> ids[i], timestamp |-> base + (i - 1) * step,
                   failure_type |-> failure_type]
    /\ \A i \in 1..(Len(es) - 1) : es[i + 1].timestamp - es[i].timestamp = step
    /\ NonDecreasing(es)

\* C39 (as claimed): rolling_failure(nodes, interval) returns one
\* HardwareFailure event per node in input order, the i-th at exactly
\* i * interval; rack_failure(nodes) one PowerOutage event per node, the i-th
\* at 5 s + i * 50 ms; both lists are ordered by non-decreasing timestamp.
C39_CannedSchedules ==
    /\ out.op = "rolling_failure" =>
          EvenlySpaced(out.res.val, history.node_ids, "HardwareFailure", 0, history.interval)
    /\ out.op = "rack_failure" =>
          EvenlySpaced(out.res.val, history.node_ids, "PowerOutage", 5000000, 50000)

\* the same with the interval cut down to whole milliseconds: this holds
C39_WholeMilliseconds ==
    /\ out.op = "rolling_failure" =>
          EvenlySpaced(out.res.val, history.node_ids, "HardwareFailure", 0,
                       (history.interval \div 1000) * 1000)
    /\ out.op = "rack_failure" =>
          EvenlySpaced(out.res.val, history.node_ids, "PowerOutage", 5000000, 50000)

\* ---------------------------------------------------------------- C40
\* C40: parity chunk 1 of encode is the XOR of the data chunks at the even
\* indices 0, 2, 4, ..., as the comment in create_parity_chunks says.
C40_ParityOneEven ==
    (out.op = "encode" /\ scheme.parity_chunks >= 2)
    => \A j \in 1..Len(out.res.val[1]) :
           IsXorOf(out.res.val[scheme.data_chunks + 2][j], out.res.val,
                   {i + 1 : i \in {x \in 0..(scheme.data_chunks - 1) : x % 2 = 0}}, j)

\* what the code computes: the data chunks at the odd indices 1, 3, 5, ...
C40_ParityOneOdd ==
    (out.op = "encode" /\ scheme.parity_chunks >= 2)
    => \A j \in 1..Len(out.res.val[1]) :
           IsXorOf(out.res.val[scheme.data_chunks + 2][j], out.res.val,
                   {i + 1 : i \in {x \in 0..(scheme.data_chunks - 1) : x % 2 = 1}}, j)

====
